---- MODULE Spec2Model ----
(***************************************************************************)
(* Model of the ypbank workspace: the reconciliation engine of             *)
(* ypbank-comparer, the format dispatcher of ypbank-converter and the      *)
(* MT940 / CAMT.053 codecs and conversions of ypbank-parser.               *)
(*                                                                         *)
(* Conventions.  Option<T> is a sequence of length at most one: None is    *)
(* <<>> and Some(x) is <<x>>.  Vec<T> indexed by usize is a function on    *)
(* 0..n-1 where the code uses the indices, a sequence otherwise.  Text is  *)
(* a string; a result is a record with the field ok, and val or err.       *)
(***************************************************************************)
EXTENDS Integers, Sequences, FiniteSets, TLC

VARIABLES stmt1, stmt2, cmp_i, matched, used_second,
          only_in_first, only_in_second, cmp_pc,
          cv_content, cv_in, cv_out, cv_sink, cv_result,
          fn_in, fn_op, fn_out

cmpVars == <<stmt1, stmt2, cmp_i, matched, used_second,
             only_in_first, only_in_second, cmp_pc>>

\* convert_and_write: its arguments, the bytes in the sink, its result.
cvVars == <<cv_content, cv_in, cv_out, cv_sink, cv_result>>

\* A pure function of the library: its argument, which function was applied,
\* and what it returned.
fnVars == <<fn_in, fn_op, fn_out>>

vars == <<stmt1, stmt2, cmp_i, matched, used_second,
          only_in_first, only_in_second, cmp_pc,
          cv_content, cv_in, cv_out, cv_sink, cv_result,
          fn_in, fn_op, fn_out>>

\* The parts of the state a specification does not use stay as they start.
CmpIdle ==
    /\ stmt1 = <<>> /\ stmt2 = <<>> /\ cmp_i = 0 /\ matched = <<>>
    /\ used_second = <<>> /\ only_in_first = <<>> /\ only_in_second = <<>>
    /\ cmp_pc = "idle"

CvIdle ==
    /\ cv_content = "" /\ cv_in = "idle" /\ cv_out = "idle"
    /\ cv_sink = "" /\ cv_result = "idle"

FnIdle == fn_in = "idle" /\ fn_op = "idle" /\ fn_out = "idle"

None == <<>>
Some(x) == <<x>>

(***************************************************************************)
(* Bounds of the model.                                                    *)
(***************************************************************************)
MaxTx1 == 2
MaxTx2 == 2
\* The most transactions of an MT940 statement the conversions are applied to.
MaxMt940Tx == 2

(***************************************************************************)
(* Text helpers: the methods of str the code uses.                          *)
(***************************************************************************)
\* Byte offsets are counted from 0 as in the code; the text of the model is
\* ASCII, one character a byte.
CharAt(s, i) == SubSeq(s, i + 1, i + 1)

\* &s[a..b] and &s[a..]
Slice(s, a, b) == SubSeq(s, a + 1, b)

SliceFrom(s, a) == SubSeq(s, a + 1, Len(s))

StartsWithAt(s, p, i) ==
    i + Len(p) <= Len(s) /\ SubSeq(s, i + 1, i + Len(p)) = p

StartsWith(s, p) == StartsWithAt(s, p, 0)

Contains(s, p) == \E i \in 0..Len(s) : StartsWithAt(s, p, i)

\* The least offset of a set of offsets, -1 for the empty set.
First(S) == IF S = {} THEN -1 ELSE CHOOSE x \in S : \A y \in S : x <= y

\* str::find: the offset of the first occurrence, -1 for None.
Find(s, p) == First({ i \in 0..(Len(s) - Len(p)) : StartsWithAt(s, p, i) })

\* s[from..].find(p), as an offset into s[from..].
FindFrom(s, p, from) == Find(SliceFrom(s, from), p)

\* char::is_whitespace on ASCII text.
Whitespace == {" ", "\t", "\n", "\r", "\f"}

RECURSIVE TrimStart(_)
TrimStart(s) ==
    IF s # "" /\ CharAt(s, 0) \in Whitespace THEN TrimStart(SliceFrom(s, 1)) ELSE s

RECURSIVE TrimEnd(_)
TrimEnd(s) ==
    IF s # "" /\ CharAt(s, Len(s) - 1) \in Whitespace
    THEN TrimEnd(Slice(s, 0, Len(s) - 1))
    ELSE s

Trim(s) == TrimEnd(TrimStart(s))

\* str::split(sep).collect()
RECURSIVE Split(_, _)
Split(s, sep) ==
    IF Find(s, sep) = -1 THEN <<s>>
    ELSE <<Slice(s, 0, Find(s, sep))>> \o Split(SliceFrom(s, Find(s, sep) + Len(sep)), sep)

\* str::lines(): the parts between "\n", without a last empty part, one
\* trailing "\r" of a part dropped.
Lines(s) ==
    LET parts == Split(s, "\n")
    IN  [ i \in 1..(IF parts[Len(parts)] = "" THEN Len(parts) - 1 ELSE Len(parts)) |->
            IF parts[i] # "" /\ CharAt(parts[i], Len(parts[i]) - 1) = "\r"
            THEN Slice(parts[i], 0, Len(parts[i]) - 1)
            ELSE parts[i] ]

\* str::replace(from, to)
RECURSIVE Replace(_, _, _)
Replace(s, from, to) ==
    IF Find(s, from) = -1 THEN s
    ELSE Slice(s, 0, Find(s, from)) \o to
             \o Replace(SliceFrom(s, Find(s, from) + Len(from)), from, to)

\* Vec<String>::join(sep)
RECURSIVE Join(_, _)
Join(parts, sep) ==
    IF Len(parts) = 0 THEN ""
    ELSE IF Len(parts) = 1 THEN parts[1]
    ELSE parts[1] \o sep \o Join(Tail(parts), sep)

Digits == {"0", "1", "2", "3", "4", "5", "6", "7", "8", "9"}

Letters ==
    {"A", "B", "C", "D", "E", "F", "G", "H", "I", "J", "K", "L", "M",
     "N", "O", "P", "Q", "R", "S", "T", "U", "V", "W", "X", "Y", "Z",
     "a", "b", "c", "d", "e", "f", "g", "h", "i", "j", "k", "l", "m",
     "n", "o", "p", "q", "r", "s", "t", "u", "v", "w", "x", "y", "z"}

IsDigits(s) == \A i \in 0..(Len(s) - 1) : CharAt(s, i) \in Digits

DigitVal(c) == CHOOSE d \in 0..9 : ToString(d) = c

RECURSIVE DigitsValue(_)
DigitsValue(s) ==
    IF s = "" THEN 0
    ELSE DigitsValue(Slice(s, 0, Len(s) - 1)) * 10 + DigitVal(CharAt(s, Len(s) - 1))

Ok(v) == [ok |-> TRUE, val |-> v]
Err(kind) == [ok |-> FALSE, err |-> kind]

\* str::parse::<u8>() and ::<u16>(): an optional '+', then digits only, the
\* value at most max.  Texts of the model are short enough for the value to
\* be computed exactly.
ParseUnsigned(s, max) ==
    LET body == IF s # "" /\ CharAt(s, 0) = "+" THEN SliceFrom(s, 1) ELSE s
    IN  IF body = "" \/ ~IsDigits(body) THEN Err("Parse")
        ELSE IF DigitsValue(body) > max THEN Err("Parse")
        ELSE Ok(DigitsValue(body))

\* Result::unwrap_or
unwrap_or(r, default) == IF r.ok THEN r.val ELSE default

\* A panic of the code, as a result.
Panic == Err("panic")

\* The items of a loop after one more element was parsed: the value of an Ok
\* is pushed, an Err is left out (with a warning), a panic ends the call.
PushParsed(items, parsed) ==
    IF ~items.ok THEN Panic
    ELSE IF parsed.ok THEN Ok(Append(items.val, parsed.val))
    ELSE IF parsed.err = "panic" THEN Panic
    ELSE items

\* {:02} and {:04} of an unsigned number.
RECURSIVE PadZero(_, _)
PadZero(text, width) ==
    IF Len(text) >= width THEN text ELSE PadZero("0" \o text, width)

Fmt02(n) == PadZero(ToString(n), 2)
Fmt04(n) == PadZero(ToString(n), 4)

\* i64 division and remainder, truncating toward zero.
TruncDiv(a, b) == IF a >= 0 THEN a \div b ELSE -((-a) \div b)
TruncRem(a, b) == a - b * TruncDiv(a, b)
Abs(a) == IF a < 0 THEN -a ELSE a

(***************************************************************************)
(* ypbank-comparer: the reconciliation engine.                             *)
(***************************************************************************)
Tx(d, a, c, r, desc) ==
    [date |-> d, amount |-> a, is_credit |-> c, reference |-> r, description |-> desc]

\* The transactions the two statements are drawn from: one booking key
\* (date 1, amount 100, credit) with every kind of reference and description
\* the scoring distinguishes, and one transaction off that key in each of the
\* three fields of the key.  Some("") is the reference of a CSV row without a
\* document number.
TxPool ==
    { Tx(1, 100, TRUE, None, ""),
      Tx(1, 100, TRUE, Some(""), ""),
      Tx(1, 100, TRUE, Some("R1"), ""),
      Tx(1, 100, TRUE, Some("R1"), "ab"),
      Tx(1, 100, TRUE, Some("R2"), "a"),
      Tx(2, 100, TRUE, Some("R1"), "ab"),
      Tx(1, 200, TRUE, Some("R1"), "ab"),
      Tx(1, 100, FALSE, Some("R1"), "ab") }

Statements(max) == UNION { [0..(n - 1) -> TxPool] : n \in 0..max }

NumTx(s) == Cardinality(DOMAIN s)

transactions_match_no_direction(tx1, tx2) ==
    /\ tx1.date = tx2.date
    /\ tx1.amount = tx2.amount

transactions_match(tx1, tx2) ==
    /\ tx1.date = tx2.date
    /\ tx1.amount = tx2.amount
    /\ tx1.is_credit = tx2.is_credit

\* A score without the bonus for equal references.
calculate_match_score_no_reference(tx1, tx2) ==
    LET s1 == IF tx1.date = tx2.date THEN 10 ELSE 0
        s2 == IF tx1.amount = tx2.amount THEN 10 ELSE 0
        s3 == IF tx1.is_credit = tx2.is_credit THEN 5 ELSE 0
        s5 == IF /\ tx1.description # ""
                 /\ tx2.description # ""
                 /\ \/ Contains(tx1.description, tx2.description)
                    \/ Contains(tx2.description, tx1.description)
              THEN 5 ELSE 0
    IN  s1 + s2 + s3 + s5

calculate_match_score(tx1, tx2) ==
    LET s1 == IF tx1.date = tx2.date THEN 10 ELSE 0
        s2 == IF tx1.amount = tx2.amount THEN 10 ELSE 0
        s3 == IF tx1.is_credit = tx2.is_credit THEN 5 ELSE 0
        s4 == IF /\ tx1.reference # None
                 /\ tx2.reference # None
                 /\ tx1.reference[1] = tx2.reference[1]
              THEN 15 ELSE 0
        s5 == IF /\ tx1.description # ""
                 /\ tx2.description # ""
                 /\ \/ Contains(tx1.description, tx2.description)
                    \/ Contains(tx2.description, tx1.description)
              THEN 5 ELSE 0
    IN  s1 + s2 + s3 + s4 + s5

\* The inner loop of compare_statements: best_match after the scan of the
\* second statement from index j on, given best_match before it.
RECURSIVE ScanSecond(_, _, _, _, _)
ScanSecond(tx1, s2, used, j, best) ==
    IF j >= NumTx(s2) THEN best
    ELSE IF used[j] THEN ScanSecond(tx1, s2, used, j + 1, best)
    ELSE IF transactions_match(tx1, s2[j])
         THEN LET score == calculate_match_score(tx1, s2[j])
              IN  IF best = None \/ score > best[1][2]
                  THEN ScanSecond(tx1, s2, used, j + 1, Some(<<j, score>>))
                  ELSE ScanSecond(tx1, s2, used, j + 1, best)
         ELSE ScanSecond(tx1, s2, used, j + 1, best)

\* A scan that forgets which second-statement transactions are claimed.
BestMatchIgnoreUsed(tx1, s2, used) ==
    ScanSecond(tx1, s2, [j \in DOMAIN s2 |-> FALSE], 0, None)

BestMatch(tx1, s2, used) == ScanSecond(tx1, s2, used, 0, None)

InitCompare ==
    /\ stmt1 \in Statements(MaxTx1)
    /\ stmt2 \in Statements(MaxTx2)
    /\ cmp_i = 0
    /\ matched = <<>>
    /\ used_second = [j \in DOMAIN stmt2 |-> FALSE]
    /\ only_in_first = <<>>
    /\ only_in_second = <<>>
    /\ cmp_pc = "loop"
    /\ CvIdle
    /\ FnIdle

\* An iteration that takes the best match only when it scores above the
\* three fields of the booking key.
CompareStep_above_key ==
    /\ cmp_pc = "loop"
    /\ cmp_i < NumTx(stmt1)
    /\ LET best == BestMatch(stmt1[cmp_i], stmt2, used_second)
       IN  IF best # None /\ best[1][2] > 25
           THEN /\ matched' = Append(matched, <<cmp_i, best[1][1]>>)
                /\ used_second' = [used_second EXCEPT ![best[1][1]] = TRUE]
           ELSE UNCHANGED <<matched, used_second>>
    /\ cmp_i' = cmp_i + 1
    /\ UNCHANGED <<stmt1, stmt2, only_in_first, only_in_second, cmp_pc>>
    /\ UNCHANGED <<cvVars, fnVars>>

\* One iteration of the outer loop of compare_statements.
CompareStep ==
    /\ cmp_pc = "loop"
    /\ cmp_i < NumTx(stmt1)
    /\ LET best == BestMatch(stmt1[cmp_i], stmt2, used_second)
       IN  IF best # None
           THEN /\ matched' = Append(matched, <<cmp_i, best[1][1]>>)
                /\ used_second' = [used_second EXCEPT ![best[1][1]] = TRUE]
           ELSE UNCHANGED <<matched, used_second>>
    /\ cmp_i' = cmp_i + 1
    /\ UNCHANGED <<stmt1, stmt2, only_in_first, only_in_second, cmp_pc>>
    /\ UNCHANGED <<cvVars, fnVars>>

RECURSIVE FilterRange(_, _, _)
\* (lo..hi-1).filter(keep).collect(), in increasing order.
FilterRange(lo, hi, keep) ==
    IF lo >= hi THEN <<>>
    ELSE (IF lo \in keep THEN <<lo>> ELSE <<>>) \o FilterRange(lo + 1, hi, keep)

\* The end of compare_statements: the two lists of unmatched indices.
CompareFinish ==
    /\ cmp_pc = "loop"
    /\ cmp_i >= NumTx(stmt1)
    /\ LET matched_first == { matched[k][1] : k \in 1..Len(matched) }
       IN  only_in_first' = FilterRange(0, NumTx(stmt1), (DOMAIN stmt1) \ matched_first)
    /\ only_in_second' =
           FilterRange(0, NumTx(stmt2), { j \in DOMAIN stmt2 : ~used_second[j] })
    /\ cmp_pc' = "done"
    /\ UNCHANGED <<stmt1, stmt2, cmp_i, matched, used_second>>
    /\ UNCHANGED <<cvVars, fnVars>>

NextCompare == CompareStep \/ CompareFinish

SpecCompare == InitCompare /\ [][NextCompare]_vars

(***************************************************************************)
(* Claims about the reconciliation engine (SpecCompare).                   *)
(***************************************************************************)
SeqRange(q) == { q[k] : k \in 1..Len(q) }

Occurrences(q, x) == Cardinality({ k \in 1..Len(q) : q[k] = x })

\* The exact-match predicate as the specification words it.
ExactMatch(t, u) ==
    t.date = u.date /\ t.amount = u.amount /\ t.is_credit = u.is_credit

\* The second-statement indices a step for first-statement index i may pair
\* i with: not yet claimed, and an exact match.
Candidates(i) ==
    { j \in DOMAIN stmt2 : ~used_second[j] /\ ExactMatch(stmt1[i], stmt2[j]) }

\* C1: every pair (i, j) of the matched output satisfies the exact-match
\* predicate: equal booking date, equal amount value, equal direction flag.
C1_MatchedPairsExact ==
    \A p \in SeqRange(matched) :
        /\ p[1] \in DOMAIN stmt1
        /\ p[2] \in DOMAIN stmt2
        /\ stmt1[p[1]].date = stmt2[p[2]].date
        /\ stmt1[p[1]].amount = stmt2[p[2]].amount
        /\ stmt1[p[1]].is_credit = stmt2[p[2]].is_credit

\* A finished comparison with a matched pair, although the second statement
\* also holds a transaction that differs from the matched one in direction only.
C1_Witness ==
    /\ cmp_pc = "done"
    /\ \E p \in SeqRange(matched) : \E j \in DOMAIN stmt2 :
          /\ stmt2[j].date = stmt1[p[1]].date
          /\ stmt2[j].amount = stmt1[p[1]].amount
          /\ stmt2[j].is_credit # stmt1[p[1]].is_credit
          /\ j < p[2]

\* The weighted score as the specification words it: the reference bonus is
\* for equal non-empty references.
DocumentedScore(t, u) ==
      (IF t.date = u.date THEN 10 ELSE 0)
    + (IF t.amount = u.amount THEN 10 ELSE 0)
    + (IF t.is_credit = u.is_credit THEN 5 ELSE 0)
    + (IF /\ t.reference # None /\ u.reference # None
          /\ t.reference[1] # "" /\ t.reference[1] = u.reference[1]
       THEN 15 ELSE 0)
    + (IF /\ t.description # "" /\ u.description # ""
          /\ \/ Contains(t.description, u.description)
             \/ Contains(u.description, t.description)
       THEN 5 ELSE 0)

\* The candidate a step for index i has to choose under a given score: the
\* lowest index among the candidates with the highest score.
Choice(i, score(_, _)) ==
    CHOOSE j \in Candidates(i) :
        \A k \in Candidates(i) :
            \/ score(stmt1[i], stmt2[k]) < score(stmt1[i], stmt2[j])
            \/ score(stmt1[i], stmt2[k]) = score(stmt1[i], stmt2[j]) /\ j <= k

StepChooses(score(_, _)) ==
    cmp_i' = cmp_i + 1 =>
        IF Candidates(cmp_i) = {}
        THEN matched' = matched /\ used_second' = used_second
        ELSE /\ matched' = Append(matched, <<cmp_i, Choice(cmp_i, score)>>)
             /\ used_second' = [used_second EXCEPT ![Choice(cmp_i, score)] = TRUE]

\* C2: the first statement is processed in index order; transaction i is
\* paired with the unclaimed exact match of the highest weighted score (date
\* 10, amount 10, direction 5, equal non-empty references 15, non-empty
\* descriptions one containing the other 5), the lowest index among equal top
\* scores, and the chosen one is marked claimed.
C2_GreedyDocumentedScore == [][StepChooses(DocumentedScore)]_vars

\* C3: the result partitions both statements: every index of the first
\* statement occurs exactly once, in one matched pair or in only_in_first;
\* every index of the second exactly once, in one matched pair or in
\* only_in_second.
C3_Partition ==
    cmp_pc = "done" =>
        /\ \A p \in SeqRange(matched) : p[1] \in DOMAIN stmt1 /\ p[2] \in DOMAIN stmt2
        /\ SeqRange(only_in_first) \subseteq DOMAIN stmt1
        /\ SeqRange(only_in_second) \subseteq DOMAIN stmt2
        /\ \A i \in DOMAIN stmt1 :
              Cardinality({ k \in 1..Len(matched) : matched[k][1] = i })
                  + Occurrences(only_in_first, i) = 1
        /\ \A j \in DOMAIN stmt2 :
              Cardinality({ k \in 1..Len(matched) : matched[k][2] = j })
                  + Occurrences(only_in_second, j) = 1

\* A finished comparison of two statements of two transactions each, where
\* both first-statement transactions are exact matches of the same
\* second-statement transaction: one is matched, the other is not.
C3_Witness ==
    /\ cmp_pc = "done"
    /\ Len(matched) = 1
    /\ Len(only_in_first) = 1
    /\ Len(only_in_second) = 1
    /\ ExactMatch(stmt1[only_in_first[1]], stmt2[matched[1][2]])

\* The pairs (a, b) of candidates of the step for index i that differ in the
\* reference only, a with the reference of transaction i and b without it.
ReferencePairs(i) ==
    { ab \in Candidates(i) \X Candidates(i) :
        /\ stmt1[i].reference # None
        /\ stmt2[ab[1]].reference = stmt1[i].reference
        /\ stmt2[ab[2]].reference # stmt1[i].reference
        /\ stmt2[ab[1]].description = stmt2[ab[2]].description }

\* C4: of two unclaimed exact matches of t that differ in the reference only,
\* the one with t's reference scores strictly higher and is never passed over
\* for the other; when the two are the only candidates it is the one matched
\* to t, whichever of them comes first in the second statement.
C4_ReferencePreferred ==
    [][cmp_i' = cmp_i + 1 =>
          \A ab \in ReferencePairs(cmp_i) :
              /\ calculate_match_score(stmt1[cmp_i], stmt2[ab[1]])
                     > calculate_match_score(stmt1[cmp_i], stmt2[ab[2]])
              /\ <<cmp_i, ab[2]>> \notin SeqRange(matched')
              /\ Candidates(cmp_i) = {ab[1], ab[2]}
                     => matched' = Append(matched, <<cmp_i, ab[1]>>)]_vars

\* A finished comparison where the candidate with the equal reference came
\* second in the second statement and was matched, the first one left over.
C4_Witness ==
    /\ cmp_pc = "done"
    /\ \E p \in SeqRange(matched) : \E b \in SeqRange(only_in_second) :
          /\ b < p[2]
          /\ ExactMatch(stmt1[p[1]], stmt2[b])
          /\ stmt1[p[1]].reference # None
          /\ stmt2[p[2]].reference = stmt1[p[1]].reference
          /\ stmt2[b].reference # stmt1[p[1]].reference
          /\ stmt2[b].description = stmt2[p[2]].description

(***************************************************************************)
(* ypbank-parser: the MT940 codec.                                         *)
(***************************************************************************)
Date(y, m, d) == [year |-> y, month |-> m, day |-> d]

\* parse_date with the year 50 counted to the 1900s.
Mt940_parse_date_from_50(date_str) ==
    LET yy == ParseUnsigned(Slice(date_str, 0, 2), 65535)
        mm == ParseUnsigned(Slice(date_str, 2, 4), 255)
        dd == ParseUnsigned(Slice(date_str, 4, 6), 255)
    IN  IF Len(date_str) # 6 THEN Err("Parse")
        ELSE IF ~yy.ok THEN Err("Parse")
        ELSE IF ~mm.ok THEN Err("Parse")
        ELSE IF ~dd.ok THEN Err("Parse")
        ELSE Ok(Date(IF yy.val >= 50 THEN 1900 + yy.val ELSE 2000 + yy.val,
                     mm.val, dd.val))

\* Mt940Statement::parse_date
Mt940_parse_date(date_str) ==
    LET yy == ParseUnsigned(Slice(date_str, 0, 2), 65535)
        mm == ParseUnsigned(Slice(date_str, 2, 4), 255)
        dd == ParseUnsigned(Slice(date_str, 4, 6), 255)
    IN  IF Len(date_str) # 6 THEN Err("Parse")
        ELSE IF ~yy.ok THEN Err("Parse")
        ELSE IF ~mm.ok THEN Err("Parse")
        ELSE IF ~dd.ok THEN Err("Parse")
        ELSE Ok(Date(IF yy.val > 50 THEN 1900 + yy.val ELSE 2000 + yy.val,
                     mm.val, dd.val))

\* i64::MAX, scaled to nine decimal digits so that the 32-bit integers of TLC
\* hold every value the model computes.
I64_MAX == 999999999

RECURSIVE TrimStartMatches(_, _)
\* str::trim_start_matches(c)
TrimStartMatches(text, c) ==
    IF text # "" /\ CharAt(text, 0) = c THEN TrimStartMatches(SliceFrom(text, 1), c)
    ELSE text

\* The minor units of a decimal number given by its digits before and after
\* the point, as (amount * 100.0).round() as i64 computes them: with at most
\* two fractional digits the exact number; a third digit rounds half away
\* from zero; a number beyond the range of i64 becomes the nearest bound.
\* Where the digits from the third on are exactly one half, the result
\* depends on the binary expansion of the number: the texts of the model have
\* no such fraction.
F64CentsOf(negative, whole, frac) ==
    IF ~IsDigits(whole) \/ ~IsDigits(frac) THEN Err("Parse")
    ELSE IF whole = "" /\ frac = "" THEN Err("Parse")
    ELSE IF Len(TrimStartMatches(whole, "0")) > 9
            \/ DigitsValue(whole) > I64_MAX \div 100
            \/ DigitsValue(whole) * 100
                   + (IF Len(frac) = 0 THEN 0
                      ELSE IF Len(frac) = 1 THEN DigitsValue(frac) * 10
                      ELSE DigitsValue(Slice(frac, 0, 2)))
                   + (IF Len(frac) > 2 /\ DigitVal(CharAt(frac, 2)) >= 5 THEN 1 ELSE 0)
                 > I64_MAX
    THEN Ok(IF negative THEN -I64_MAX - 1 ELSE I64_MAX)
    ELSE Ok((IF negative THEN -1 ELSE 1)
            * (DigitsValue(whole) * 100
               + (IF Len(frac) = 0 THEN 0
                  ELSE IF Len(frac) = 1 THEN DigitsValue(frac) * 10
                  ELSE DigitsValue(Slice(frac, 0, 2)))
               + (IF Len(frac) > 2 /\ DigitVal(CharAt(frac, 2)) >= 5 THEN 1 ELSE 0)))

\* str::parse::<f64>() followed by (amount * 100.0).round() as i64, for the
\* plain decimal notation: an optional sign, digits, at most one '.', at
\* least one digit.  The exponent, "inf" and "nan" notations of f64 are
\* outside the model's texts.
ParseF64Cents(text) ==
    LET body == IF text # "" /\ CharAt(text, 0) \in {"-", "+"} THEN SliceFrom(text, 1)
                ELSE text
        dot == Find(body, ".")
    IN  F64CentsOf(text # "" /\ CharAt(text, 0) = "-",
                   IF dot = -1 THEN body ELSE Slice(body, 0, dot),
                   IF dot = -1 THEN "" ELSE SliceFrom(body, dot + 1))

\* Mt940Statement::parse_amount
Mt940_parse_amount(amount_str) == ParseF64Cents(Trim(amount_str))

\* CsvStatement::parse_amount_field: the digits and separators of the field
\* are kept, every other character is left out.
parse_amount_field(field) ==
    LET cleaned == Join([i \in 1..Len(Trim(field)) |->
                            IF CharAt(Trim(field), i - 1) \in Digits \cup {".", ","}
                            THEN CharAt(Trim(field), i - 1) ELSE ""], "")
        amount == ParseF64Cents(Replace(cleaned, ",", "."))
    IN  IF Trim(field) = "" THEN None
        ELSE IF amount.ok THEN Some(amount.val)
        ELSE None

\* Mt940Statement::parse_balance_value
Mt940_parse_balance_value(raw) ==
    LET value == Trim(raw)
        date == Mt940_parse_date(Slice(value, 1, 7))
        amount == Mt940_parse_amount(Replace(SliceFrom(value, 10), ",", "."))
    IN  IF Len(value) < 10 THEN Err("Parse")
        ELSE IF ~date.ok THEN date
        ELSE IF ~amount.ok THEN amount
        ELSE Ok([credit_debit |-> CharAt(value, 0),
                 date |-> date.val,
                 currency |-> Slice(value, 7, 10),
                 amount |-> amount.val])

\* parse_transaction_line: the offset of the direction code, behind the
\* entry date if the line has one.
Mt940CdPos(line) == IF CharAt(line, 6) \in Digits THEN 10 ELSE 6

\* parse_transaction_line: the offset of the amount, behind the code.
Mt940AmountStart(line) ==
    IF CharAt(line, Mt940CdPos(line) + 1) = "R"
    THEN Mt940CdPos(line) + 2 ELSE Mt940CdPos(line) + 1

\* parse_transaction_line: the offset of the first ASCII letter from the
\* amount on, the length of the line if there is none.
Mt940AmountEnd(line) ==
    Mt940AmountStart(line)
        + (IF First({ i \in 0..(Len(line) - Mt940AmountStart(line) - 1) :
                         CharAt(line, Mt940AmountStart(line) + i) \in Letters }) = -1
           THEN Len(line) - Mt940AmountStart(line)
           ELSE First({ i \in 0..(Len(line) - Mt940AmountStart(line) - 1) :
                           CharAt(line, Mt940AmountStart(line) + i) \in Letters }))

\* The Mt940Transaction of the trimmed line and its parsed date and amount.
Mt940TxOf(line, details, value_date, amount) ==
    IF ~value_date.ok THEN value_date
    ELSE IF ~amount.ok THEN amount
    ELSE Ok([date |->
                 IF Mt940CdPos(line) = 10
                 THEN Date(value_date.val.year,
                           unwrap_or(ParseUnsigned(Slice(line, 6, 8), 255),
                                     value_date.val.month),
                           unwrap_or(ParseUnsigned(Slice(line, 8, 10), 255),
                                     value_date.val.day))
                 ELSE value_date.val,
             value_date |-> Some(value_date.val),
             credit_debit |-> CharAt(line, Mt940CdPos(line)),
             amount |-> amount.val,
             transaction_type |->
                 Slice(line, Mt940AmountEnd(line),
                       IF Mt940AmountEnd(line) + 4 < Len(line)
                       THEN Mt940AmountEnd(line) + 4 ELSE Len(line)),
             reference |-> IF Find(line, "//") = -1 THEN None
                           ELSE Some(SliceFrom(line, Find(line, "//") + 2)),
             details |-> details])

\* Mt940Statement::parse_transaction_line
Mt940_parse_transaction_line(raw, details) ==
    IF Len(Trim(raw)) < 16 THEN Err("Parse")
    ELSE Mt940TxOf(Trim(raw), details,
                   Mt940_parse_date(Slice(Trim(raw), 0, 6)),
                   Mt940_parse_amount(
                       Replace(Slice(Trim(raw), Mt940AmountStart(Trim(raw)),
                                     Mt940AmountEnd(Trim(raw))), ",", ".")))

\* The locals of parse_single_statement before the first line.
Mt940ScanStart ==
    [reference |-> None, account_id |-> None, statement_number |-> "",
     opening_balance |-> None, closing_balance |-> None, transactions |-> <<>>,
     current_tx_line |-> None, current_details |-> "", in_details |-> FALSE,
     failed |-> FALSE]

\* The transactions after parse_transaction_line has been tried on the
\* pending :61: line: a line that does not parse is dropped.
Mt940PushPending(st) ==
    IF st.current_tx_line = None THEN st.transactions
    ELSE PushParsed(Ok(st.transactions),
                    Mt940_parse_transaction_line(st.current_tx_line[1],
                                                 st.current_details)).val

\* The locals after a balance line: the balance stored, or the error that
\* ends parse_single_statement.
Mt940SetBalance(st, field, balance) ==
    IF balance.ok
    THEN [st EXCEPT ![field] = Some(balance.val), !.in_details = FALSE]
    ELSE [st EXCEPT !.failed = TRUE]

\* The body of the line loop of parse_single_statement, for a line whose end
\* is trimmed.
Mt940ScanLine(st, line) ==
    IF st.failed THEN st
    ELSE IF StartsWith(line, ":20:")
    THEN [st EXCEPT !.reference = Some(Trim(SliceFrom(line, 4))), !.in_details = FALSE]
    ELSE IF StartsWith(line, ":25:")
    THEN [st EXCEPT !.account_id = Some(Trim(SliceFrom(line, 4))), !.in_details = FALSE]
    ELSE IF StartsWith(line, ":28C:")
    THEN [st EXCEPT !.statement_number = Trim(SliceFrom(line, 5)), !.in_details = FALSE]
    ELSE IF StartsWith(line, ":60F:") \/ StartsWith(line, ":60M:")
    THEN Mt940SetBalance(st, "opening_balance",
                         Mt940_parse_balance_value(SliceFrom(line, 5)))
    ELSE IF StartsWith(line, ":62F:") \/ StartsWith(line, ":62M:")
    THEN Mt940SetBalance(st, "closing_balance",
                         Mt940_parse_balance_value(SliceFrom(line, 5)))
    ELSE IF StartsWith(line, ":61:")
    THEN [st EXCEPT !.transactions = Mt940PushPending(st),
                    !.current_details =
                        IF st.current_tx_line # None THEN "" ELSE st.current_details,
                    !.current_tx_line = Some(Trim(SliceFrom(line, 4))),
                    !.in_details = FALSE]
    ELSE IF StartsWith(line, ":86:")
    THEN [st EXCEPT !.current_details = Trim(SliceFrom(line, 4)), !.in_details = TRUE]
    ELSE IF StartsWith(line, ":")
    THEN [st EXCEPT !.in_details = FALSE]
    ELSE IF st.in_details /\ line # ""
    THEN [st EXCEPT !.current_details =
                        (IF st.current_details # "" THEN st.current_details \o " "
                         ELSE "") \o Trim(line)]
    ELSE st

\* The line loop of parse_single_statement from line k on, then the checks
\* and the statement after the last line.
RECURSIVE Mt940ScanLines(_, _, _)
Mt940ScanLines(st, lines, k) ==
    IF k <= Len(lines)
    THEN Mt940ScanLines(Mt940ScanLine(st, TrimEnd(lines[k])), lines, k + 1)
    ELSE IF st.failed THEN Err("Parse")
    ELSE IF st.reference = None THEN Err("MissingField")
    ELSE IF st.account_id = None THEN Err("MissingField")
    ELSE IF st.opening_balance = None THEN Err("MissingField")
    ELSE IF st.closing_balance = None THEN Err("MissingField")
    ELSE Ok([reference |-> st.reference[1],
             account_id |-> st.account_id[1],
             statement_number |-> st.statement_number,
             opening_balance |-> st.opening_balance[1],
             closing_balance |-> st.closing_balance[1],
             transactions |-> Mt940PushPending(st)])

\* parse_single_statement with the account id not mandatory.
Mt940_parse_single_statement_account_optional(content) ==
    Mt940ScanLines([Mt940ScanStart EXCEPT !.account_id = Some("")], Lines(content), 1)

\* Mt940Statement::parse_single_statement
Mt940_parse_single_statement(content) ==
    Mt940ScanLines(Mt940ScanStart, Lines(content), 1)

\* The block loop of parse from block k on, with the statements pushed so
\* far, then the result: a block that fails to parse adds nothing, and no
\* statement at all is an error.
RECURSIVE Mt940ParseBlocks(_, _, _)
Mt940ParseBlocks(blocks, k, statements) ==
    IF k <= Len(blocks)
    THEN Mt940ParseBlocks(
             blocks, k + 1,
             PushParsed(statements,
                        Mt940_parse_single_statement(
                            Slice(blocks[k], 0,
                                  IF Find(blocks[k], "-}") = -1 THEN Len(blocks[k])
                                  ELSE Find(blocks[k], "-}")))))
    ELSE IF statements.val = <<>> THEN Err("InvalidFormat")
    ELSE statements

\* Mt940Statement::parse
Mt940_parse(content) == Mt940ParseBlocks(Split(content, "{4:"), 2, Ok(<<>>))

\* The document of tests/integration_tests.rs.
SAMPLE_MT940 ==
    "{1:F01ASNBNL21XXXX0000000000}{2:O940ASNBNL21XXXXN}{3:}{4:\n"
    \o ":20:0000000000\n"
    \o ":25:NL81ASNB9999999999\n"
    \o ":28C:1/1\n"
    \o ":60F:C200101EUR444,29\n"
    \o ":61:2001010101D65,00NOVBNL47INGB9999999999\n"
    \o "hr gjlm paulissen\n"
    \o ":86:NL47INGB9999999999 hr gjlm paulissen\n"
    \o "\n"
    \o "Betaling sieraden\n"
    \o "\n\n\n"
    \o ":62F:C200101EUR379,29\n"
    \o "-}{5:}\n"

\* Mt940Writer::format_amount
Mt940_format_amount(amount) ==
    ToString(TruncDiv(amount, 100)) \o "," \o Fmt02(Abs(TruncRem(amount, 100)))

\* Mt940Writer::write_balance
Mt940_write_balance(tag, balance) ==
    tag \o balance.credit_debit
        \o Fmt02(balance.date.year % 100) \o Fmt02(balance.date.month)
        \o Fmt02(balance.date.day)
        \o balance.currency \o Mt940_format_amount(balance.amount) \o "\n"

\* The continuation lines of a :86: field: details from offset pos on, in
\* lines of 65 bytes.
RECURSIVE Mt940WrapDetails(_, _)
Mt940WrapDetails(details, pos) ==
    IF pos >= Len(details) THEN ""
    ELSE Slice(details, pos, IF pos + 65 < Len(details) THEN pos + 65 ELSE Len(details))
             \o "\n" \o Mt940WrapDetails(details, pos + 65)

\* Mt940Writer::write_transaction
Mt940_write_transaction(tx) ==
    ":61:" \o Fmt02(tx.date.year % 100) \o Fmt02(tx.date.month) \o Fmt02(tx.date.day)
        \o (IF tx.value_date # None
            THEN Fmt02(tx.value_date[1].month) \o Fmt02(tx.value_date[1].day)
            ELSE "")
        \o tx.credit_debit
        \o Mt940_format_amount(tx.amount)
        \o tx.transaction_type
        \o (IF tx.reference # None THEN "//" \o tx.reference[1] ELSE "")
        \o "\n"
        \o (IF tx.details # ""
            THEN ":86:" \o Slice(tx.details, 0,
                                 IF 65 < Len(tx.details) THEN 65 ELSE Len(tx.details))
                     \o "\n" \o Mt940WrapDetails(tx.details, 65)
            ELSE "")

\* Mt940Writer::write_to: the bytes written to the sink.
Mt940_write_to(statement) ==
    "{1:F01BANKXXXX0000000000}\n"
        \o "{2:O940BANKXXXXN}\n"
        \o "{3:}\n"
        \o "{4:\n"
        \o ":20:" \o statement.reference \o "\n"
        \o ":25:" \o statement.account_id \o "\n"
        \o ":28C:" \o statement.statement_number \o "\n"
        \o Mt940_write_balance(":60F:", statement.opening_balance)
        \o Join([k \in 1..Len(statement.transactions) |->
                   Mt940_write_transaction(statement.transactions[k])], "")
        \o Mt940_write_balance(":62F:", statement.closing_balance)
        \o "-}\n"
        \o "{5:}\n"

(***************************************************************************)
(* ypbank-parser: the CAMT.053 codec.  A Camt053Balance and a Camt053Entry *)
(* carry the type and the direction as their codes (OPBD, CLBD; CRDT,      *)
(* DBIT), as convert.rs builds and reads them.                             *)
(***************************************************************************)
BALANCE_TYPE_OPENING == "OPBD"
BALANCE_TYPE_CLOSING == "CLBD"
CREDIT_INDICATOR == "CRDT"
DEBIT_INDICATOR == "DBIT"
TRANSACTION_TYPE_TRANSFER == "NTRF"
END_TO_END_NOT_PROVIDED == "NOTPROVIDED"

\* Camt053Writer::format_amount
Camt053_format_amount(amount) ==
    ToString(TruncDiv(amount, 100)) \o "." \o Fmt02(Abs(TruncRem(amount, 100)))

\* Camt053Writer::format_date
Camt053_format_date(date) ==
    Fmt04(date.year) \o "-" \o Fmt02(date.month) \o "-" \o Fmt02(date.day)

\* Camt053Writer::escape_xml
escape_xml(text) ==
    Replace(Replace(Replace(Replace(Replace(text,
        "&", "&amp;"), "<", "&lt;"), ">", "&gt;"), "\"", "&quot;"), "'", "&apos;")

\* Camt053Writer::write_account
Camt053_write_account(statement) ==
    "<Acct>\n" \o "<Id>\n"
        \o (IF statement.account.iban # None
            THEN "<IBAN>" \o escape_xml(statement.account.iban[1]) \o "</IBAN>\n"
            ELSE "")
        \o "</Id>\n"
        \o "<Ccy>" \o escape_xml(statement.account.currency) \o "</Ccy>\n"
        \o (IF statement.account.name # None
            THEN "<Nm>" \o escape_xml(statement.account.name[1]) \o "</Nm>\n"
            ELSE "")
        \o (IF statement.account.owner_name # None
            THEN "<Ownr>\n" \o "<Nm>" \o escape_xml(statement.account.owner_name[1])
                     \o "</Nm>\n" \o "</Ownr>\n"
            ELSE "")
        \o "</Acct>\n"

\* Camt053Writer::write_balance
Camt053_write_balance(balance) ==
    "<Bal>\n" \o "<Tp>\n" \o "<CdOrPrtry>\n"
        \o "<Cd>" \o balance.balance_type \o "</Cd>\n"
        \o "</CdOrPrtry>\n" \o "</Tp>\n"
        \o "<Amt Ccy=\"" \o escape_xml(balance.currency) \o "\">"
        \o Camt053_format_amount(balance.amount) \o "</Amt>\n"
        \o "<CdtDbtInd>" \o balance.credit_debit_indicator \o "</CdtDbtInd>\n"
        \o "<Dt>\n" \o "<Dt>" \o Camt053_format_date(balance.date) \o "</Dt>\n" \o "</Dt>\n"
        \o "</Bal>\n"

\* Camt053Writer::write_transaction_details
Camt053_write_transaction_details(details) ==
    "<TxDtls>\n" \o "<Refs>\n"
        \o (IF details.end_to_end_id # None
            THEN "<EndToEndId>" \o escape_xml(details.end_to_end_id[1]) \o "</EndToEndId>\n"
            ELSE "")
        \o (IF details.transaction_id # None
            THEN "<TxId>" \o escape_xml(details.transaction_id[1]) \o "</TxId>\n"
            ELSE "")
        \o "</Refs>\n"
        \o (IF details.amount # None /\ details.currency # None
            THEN "<AmtDtls>\n" \o "<TxAmt>\n"
                     \o "<Amt Ccy=\"" \o escape_xml(details.currency[1]) \o "\">"
                     \o Camt053_format_amount(details.amount[1]) \o "</Amt>\n"
                     \o "</TxAmt>\n" \o "</AmtDtls>\n"
            ELSE "")
        \o "<RltdPties>\n"
        \o (IF details.debtor_name # None \/ details.debtor_account # None
            THEN "<Dbtr>\n"
                     \o (IF details.debtor_name # None
                         THEN "<Nm>" \o escape_xml(details.debtor_name[1]) \o "</Nm>\n"
                         ELSE "")
                     \o "</Dbtr>\n"
                     \o (IF details.debtor_account # None
                         THEN "<DbtrAcct>\n" \o "<Id>\n" \o "<IBAN>"
                                  \o escape_xml(details.debtor_account[1]) \o "</IBAN>\n"
                                  \o "</Id>\n" \o "</DbtrAcct>\n"
                         ELSE "")
            ELSE "")
        \o (IF details.creditor_name # None \/ details.creditor_account # None
            THEN "<Cdtr>\n"
                     \o (IF details.creditor_name # None
                         THEN "<Nm>" \o escape_xml(details.creditor_name[1]) \o "</Nm>\n"
                         ELSE "")
                     \o "</Cdtr>\n"
                     \o (IF details.creditor_account # None
                         THEN "<CdtrAcct>\n" \o "<Id>\n" \o "<IBAN>"
                                  \o escape_xml(details.creditor_account[1]) \o "</IBAN>\n"
                                  \o "</Id>\n" \o "</CdtrAcct>\n"
                         ELSE "")
            ELSE "")
        \o "</RltdPties>\n"
        \o (IF details.remittance_info # <<>>
            THEN "<RmtInf>\n"
                     \o Join([k \in 1..Len(details.remittance_info) |->
                                "<Ustrd>" \o escape_xml(details.remittance_info[k])
                                    \o "</Ustrd>\n"], "")
                     \o "</RmtInf>\n"
            ELSE "")
        \o "</TxDtls>\n"

\* Camt053Writer::write_entry
Camt053_write_entry(entry) ==
    "<Ntry>\n"
        \o (IF entry.entry_ref # None
            THEN "<NtryRef>" \o escape_xml(entry.entry_ref[1]) \o "</NtryRef>\n"
            ELSE "")
        \o "<Amt Ccy=\"" \o escape_xml(entry.currency) \o "\">"
        \o Camt053_format_amount(entry.amount) \o "</Amt>\n"
        \o "<CdtDbtInd>" \o entry.credit_debit_indicator \o "</CdtDbtInd>\n"
        \o "<Sts>BOOK</Sts>\n"
        \o "<BookgDt>\n" \o "<Dt>" \o Camt053_format_date(entry.booking_date) \o "</Dt>\n"
        \o "</BookgDt>\n"
        \o (IF entry.value_date # None
            THEN "<ValDt>\n" \o "<Dt>" \o Camt053_format_date(entry.value_date[1])
                     \o "</Dt>\n" \o "</ValDt>\n"
            ELSE "")
        \o (IF entry.account_servicer_ref # None
            THEN "<AcctSvcrRef>" \o escape_xml(entry.account_servicer_ref[1])
                     \o "</AcctSvcrRef>\n"
            ELSE "")
        \o (IF entry.transaction_details # <<>>
            THEN "<NtryDtls>\n"
                     \o Join([k \in 1..Len(entry.transaction_details) |->
                                Camt053_write_transaction_details(
                                    entry.transaction_details[k])], "")
                     \o "</NtryDtls>\n"
            ELSE "")
        \o "</Ntry>\n"

\* Camt053Writer::write_to: the bytes written to the sink.
Camt053_write_to(statement) ==
    "<?xml version=\"1.0\" encoding=\"UTF-8\"?>\n"
        \o "<Document xmlns=\"urn:iso:std:iso:20022:tech:xsd:camt.053.001.02\">\n"
        \o "<BkToCstmrStmt>\n"
        \o "<GrpHdr>\n"
        \o "<MsgId>" \o escape_xml(statement.message_id) \o "</MsgId>\n"
        \o "<CreDtTm>" \o escape_xml(statement.creation_date_time) \o "</CreDtTm>\n"
        \o "</GrpHdr>\n"
        \o "<Stmt>\n"
        \o "<Id>" \o escape_xml(statement.statement_id) \o "</Id>\n"
        \o Camt053_write_account(statement)
        \o Join([k \in 1..Len(statement.balances) |->
                   Camt053_write_balance(statement.balances[k])], "")
        \o Join([k \in 1..Len(statement.entries) |->
                   Camt053_write_entry(statement.entries[k])], "")
        \o "</Stmt>\n"
        \o "</BkToCstmrStmt>\n"
        \o "</Document>\n"

\* A slice whose start lies behind its end, or whose end lies behind the end
\* of the text, makes the code panic.
SliceOk(s, a, b) == a <= b /\ b <= Len(s)

\* BalanceType::from_code and BalanceType::as_code: the type keeps its code.
BalanceType_from_code(code) == code

\* CreditDebit::from_code and CreditDebit::as_code: CRDT is credit, any other
\* code is debit.
CreditDebit_from_code(code) ==
    IF code = CREDIT_INDICATOR THEN CREDIT_INDICATOR ELSE DEBIT_INDICATOR

\* Camt053Statement::extract_element_value
extract_element_value(content, tag) ==
    LET start == Find(content, "<" \o tag \o ">")
        end == FindFrom(content, "</" \o tag \o ">", start + Len(tag) + 2)
    IN  IF start = -1 THEN None
        ELSE IF end = -1 THEN None
        ELSE Some(Trim(Slice(content, start + Len(tag) + 2, start + Len(tag) + 2 + end)))

\* str::parse::<i64>(): an optional sign, then digits only, the value within
\* the range of i64.
ParseI64(text) ==
    LET signed == text # "" /\ CharAt(text, 0) \in {"-", "+"}
        negative == text # "" /\ CharAt(text, 0) = "-"
        body == IF signed THEN SliceFrom(text, 1) ELSE text
        significant == TrimStartMatches(body, "0")
    IN  IF body = "" \/ ~IsDigits(body) THEN Err("Parse")
        ELSE IF Len(significant) > 9
        THEN (IF negative /\ significant = "1000000000"
              THEN Ok(-I64_MAX - 1) ELSE Err("Parse"))
        ELSE Ok(IF negative THEN -DigitsValue(significant) ELSE DigitsValue(significant))

\* parse_decimal_amount with wrapping arithmetic in place of the checked
\* multiplication and addition.
DecimalAmountOf_wrapping(is_negative, whole, frac) ==
    IF ~whole.ok THEN Err("Parse")
    ELSE IF ~frac.ok THEN Err("Parse")
    ELSE Ok(IF is_negative THEN -((whole.val * 100 + frac.val) % (I64_MAX + 1))
            ELSE (whole.val * 100 + frac.val) % (I64_MAX + 1))

\* The minor units of parse_decimal_amount from its parsed whole and
\* fractional parts: the checked multiplication and addition, then the sign.
DecimalAmountOf(is_negative, whole, frac) ==
    IF ~whole.ok THEN Err("Parse")
    ELSE IF ~frac.ok THEN Err("Parse")
    ELSE IF whole.val > I64_MAX \div 100 \/ whole.val < -((I64_MAX + 1) \div 100)
    THEN Err("Parse")
    ELSE IF whole.val * 100 + frac.val > I64_MAX
            \/ whole.val * 100 + frac.val < -I64_MAX - 1
    THEN Err("Parse")
    ELSE Ok(IF is_negative THEN -(whole.val * 100 + frac.val)
            ELSE whole.val * 100 + frac.val)

\* parse_decimal_amount with a single fractional digit padded on the left.
DecimalAmountIn_pad_left(is_negative, normalized) ==
    LET dot_pos == Find(normalized, ".")
        whole_str == IF dot_pos = -1 THEN normalized ELSE Slice(normalized, 0, dot_pos)
        frac_str == IF dot_pos = -1 THEN "" ELSE SliceFrom(normalized, dot_pos + 1)
    IN  DecimalAmountOf(is_negative,
                        IF whole_str = "" THEN Ok(0) ELSE ParseI64(whole_str),
                        IF frac_str = "" THEN Ok(0)
                        ELSE ParseI64(IF Len(frac_str) = 1 THEN "0" \o frac_str
                                      ELSE IF Len(frac_str) = 2 THEN frac_str
                                      ELSE Slice(frac_str, 0, 2)))

\* parse_decimal_amount for the text without its leading '-' signs and with
\* '.' for ','.
DecimalAmountIn(is_negative, normalized) ==
    LET dot_pos == Find(normalized, ".")
        whole_str == IF dot_pos = -1 THEN normalized ELSE Slice(normalized, 0, dot_pos)
        frac_str == IF dot_pos = -1 THEN "" ELSE SliceFrom(normalized, dot_pos + 1)
    IN  DecimalAmountOf(is_negative,
                        IF whole_str = "" THEN Ok(0) ELSE ParseI64(whole_str),
                        IF frac_str = "" THEN Ok(0)
                        ELSE ParseI64(IF Len(frac_str) = 1 THEN frac_str \o "0"
                                      ELSE IF Len(frac_str) = 2 THEN frac_str
                                      ELSE Slice(frac_str, 0, 2)))

\* Camt053Statement::parse_decimal_amount
parse_decimal_amount(raw) ==
    IF Trim(raw) = "" THEN Err("Parse")
    ELSE DecimalAmountIn(StartsWith(Trim(raw), "-"),
                         Replace(TrimStartMatches(Trim(raw), "-"), ",", "."))

\* The currency of parse_amount_with_currency: the Ccy attribute of the
\* opening tag, "EUR" without the attribute.
CurrencyOf(tag_content, ccy_pos) ==
    LET ccy_quote == FindFrom(tag_content, "\"", ccy_pos + 5)
        ccy_end == IF ccy_quote = -1 THEN 3 ELSE ccy_quote
    IN  IF ccy_pos = -1 THEN Ok("EUR")
        ELSE IF ~SliceOk(tag_content, ccy_pos + 5, ccy_pos + 5 + ccy_end) THEN Panic
        ELSE Ok(Slice(tag_content, ccy_pos + 5, ccy_pos + 5 + ccy_end))

\* The result of parse_amount_with_currency from its currency and amount.
AmountWithCurrency(currency, amount) ==
    IF ~currency.ok THEN Panic
    ELSE IF ~amount.ok THEN amount
    ELSE Ok(<<amount.val, currency.val>>)

\* Camt053Statement::parse_amount_with_currency: Ok(<<amount, currency>>)
parse_amount_with_currency(content, tag) ==
    LET start == Find(content, "<" \o tag)
        tag_end == FindFrom(content, ">", start)
        value_end == FindFrom(content, "</" \o tag \o ">", start + tag_end + 1)
    IN  IF start = -1 THEN Err("MissingField")
        ELSE IF tag_end = -1 THEN Err("Parse")
        ELSE AmountWithCurrency(
                 CurrencyOf(Slice(content, start, start + tag_end),
                            Find(Slice(content, start, start + tag_end), "Ccy=\"")),
                 IF value_end = -1 THEN Err("Parse")
                 ELSE parse_decimal_amount(
                          Slice(content, start + tag_end + 1,
                                start + tag_end + 1 + value_end)))

\* Camt053Statement::parse_iso_date
parse_iso_date(raw) ==
    LET parts == Split(Trim(raw), "-")
    IN  IF Len(parts) # 3 THEN Err("Parse")
        ELSE IF ~ParseUnsigned(parts[1], 65535).ok
                \/ ~ParseUnsigned(parts[2], 255).ok
                \/ ~ParseUnsigned(parts[3], 255).ok
        THEN Err("Parse")
        ELSE Ok(Date(ParseUnsigned(parts[1], 65535).val,
                     ParseUnsigned(parts[2], 255).val,
                     ParseUnsigned(parts[3], 255).val))

\* The loop of parse_date_element: unwrap nested <Dt> elements.
RECURSIVE UnwrapDt(_)
UnwrapDt(date_str) ==
    LET value_start == Find(date_str, "<Dt>") + 4
        end == FindFrom(date_str, "<", value_start)
    IN  IF ~Contains(date_str, "<Dt>") THEN date_str
        ELSE IF extract_element_value(date_str, "Dt") # None
        THEN UnwrapDt(extract_element_value(date_str, "Dt")[1])
        ELSE IF end # -1
        THEN Trim(Slice(date_str, value_start, value_start + end))
        ELSE Trim(SliceFrom(date_str, value_start))

\* Camt053Statement::parse_date_element
parse_date_element(content) ==
    IF extract_element_value(content, "Dt") = None THEN Err("MissingField")
    ELSE parse_iso_date(UnwrapDt(extract_element_value(content, "Dt")[1]))

\* The Camt053Balance of the parsed elements of a <Bal> block.
Camt053BalanceOf(cd, amt, ind, date) ==
    IF ~amt.ok THEN amt
    ELSE IF ~date.ok THEN date
    ELSE Ok([balance_type |-> BalanceType_from_code(IF cd = None THEN "" ELSE cd[1]),
             amount |-> amt.val[1],
             currency |-> amt.val[2],
             credit_debit_indicator |->
                 CreditDebit_from_code(IF ind = None THEN CREDIT_INDICATOR ELSE ind[1]),
             date |-> date.val])

\* Camt053Statement::parse_single_balance
parse_single_balance(content) ==
    Camt053BalanceOf(extract_element_value(content, "Cd"),
                     parse_amount_with_currency(content, "Amt"),
                     extract_element_value(content, "CdtDbtInd"),
                     parse_date_element(content))

\* The name and account of the content of a party element.
PartyOf(party_content) ==
    LET id_start == Find(party_content, "<Id>")
        id_close == Find(party_content, "</Id>")
        id_end == IF id_close = -1 THEN Len(party_content) ELSE id_close
    IN  IF extract_element_value(party_content, "IBAN") # None \/ id_start = -1
        THEN Ok(<<extract_element_value(party_content, "Nm"),
                  extract_element_value(party_content, "IBAN")>>)
        ELSE IF ~SliceOk(party_content, id_start, id_end) THEN Panic
        ELSE Ok(<<extract_element_value(party_content, "Nm"),
                  extract_element_value(Slice(party_content, id_start, id_end), "Id")>>)

\* Camt053Statement::parse_party_info: <<name, account>>
parse_party_info(content, party_tag) ==
    LET start == Find(content, "<" \o party_tag \o ">")
        close == Find(content, "</" \o party_tag \o ">")
        end == IF close = -1 THEN Len(content) ELSE close
    IN  IF start = -1 THEN Ok(<<None, None>>)
        ELSE IF ~SliceOk(content, start, end) THEN Panic
        ELSE PartyOf(Slice(content, start, end))

\* Camt053Statement::parse_remittance_info
RECURSIVE parse_remittance_info(_)
parse_remittance_info(content) ==
    LET start == Find(content, "<Ustrd>")
        end == FindFrom(content, "</Ustrd>", start)
    IN  IF start = -1 \/ end = -1 THEN <<>>
        ELSE <<Trim(Slice(content, start + 7, start + end))>>
                 \o parse_remittance_info(SliceFrom(content, start + end + 8))

\* The Camt053TransactionDetails of the parsed elements of a <TxDtls> block.
TxDtlsOf(tx_content, amt, debtor, creditor) ==
    IF ~amt.ok /\ amt.err = "panic" THEN Panic
    ELSE IF ~debtor.ok THEN Panic
    ELSE IF ~creditor.ok THEN Panic
    ELSE Ok([end_to_end_id |-> extract_element_value(tx_content, "EndToEndId"),
             transaction_id |-> extract_element_value(tx_content, "TxId"),
             amount |-> IF amt.ok THEN Some(amt.val[1]) ELSE None,
             currency |-> IF amt.ok THEN Some(amt.val[2]) ELSE None,
             debtor_name |-> debtor.val[1],
             debtor_account |-> debtor.val[2],
             creditor_name |-> creditor.val[1],
             creditor_account |-> creditor.val[2],
             remittance_info |-> parse_remittance_info(tx_content)])

\* One <TxDtls> block of parse_transaction_details.
ParseTxDtls(tx_content) ==
    TxDtlsOf(tx_content,
             parse_amount_with_currency(tx_content, "Amt"),
             parse_party_info(tx_content, "Dbtr"),
             parse_party_info(tx_content, "Cdtr"))

\* The block loop of parse_transaction_details: the details pushed so far
\* and those of the <TxDtls> blocks of content from offset pos on.
RECURSIVE ScanTxDtls(_, _, _)
ScanTxDtls(content, pos, items) ==
    LET abs_start == pos + FindFrom(content, "<TxDtls>", pos)
        close == FindFrom(content, "</TxDtls>", abs_start)
        next == IF close = -1 THEN Len(content) + 9 ELSE abs_start + close + 9
    IN  IF ~items.ok THEN Panic
        ELSE IF FindFrom(content, "<TxDtls>", pos) = -1 THEN items
        ELSE IF ~SliceOk(content, abs_start, next) THEN Panic
        ELSE ScanTxDtls(content, next,
                        PushParsed(items, ParseTxDtls(Slice(content, abs_start, next))))

\* Camt053Statement::parse_transaction_details
parse_transaction_details(content) == ScanTxDtls(content, 0, Ok(<<>>))

\* The date of a <BookgDt> or <ValDt> wrapper of an entry: Ok(None) without
\* the wrapper, else Ok(Some(parse_date_element's result)).
WrappedDate(content, wrapper) ==
    LET start == Find(content, "<" \o wrapper \o ">")
        close == Find(content, "</" \o wrapper \o ">")
        end == IF close = -1 THEN Len(content) ELSE close
    IN  IF start = -1 THEN Ok(None)
        ELSE IF ~SliceOk(content, start, end) THEN Panic
        ELSE Ok(Some(parse_date_element(Slice(content, start, end))))

\* The Camt053Entry of the parsed elements of an <Ntry> block.
Camt053EntryOf(content, amt, booking, value, details) ==
    IF ~amt.ok THEN amt
    ELSE IF ~booking.ok THEN Panic
    ELSE IF booking.val # None /\ ~booking.val[1].ok THEN booking.val[1]
    ELSE IF ~value.ok THEN Panic
    ELSE IF ~details.ok THEN Panic
    ELSE Ok([entry_ref |-> extract_element_value(content, "NtryRef"),
             amount |-> amt.val[1],
             currency |-> amt.val[2],
             credit_debit_indicator |->
                 CreditDebit_from_code(
                     IF extract_element_value(content, "CdtDbtInd") = None
                     THEN CREDIT_INDICATOR
                     ELSE extract_element_value(content, "CdtDbtInd")[1]),
             booking_date |-> IF booking.val = None THEN Date(2024, 1, 1)
                              ELSE booking.val[1].val,
             value_date |-> IF value.val # None /\ value.val[1].ok
                            THEN Some(value.val[1].val) ELSE None,
             account_servicer_ref |-> extract_element_value(content, "AcctSvcrRef"),
             transaction_details |-> details.val])

\* Camt053Statement::parse_single_entry
parse_single_entry(content) ==
    Camt053EntryOf(content,
                   parse_amount_with_currency(content, "Amt"),
                   WrappedDate(content, "BookgDt"),
                   WrappedDate(content, "ValDt"),
                   parse_transaction_details(content))

\* parse_single_balance for <Bal>, parse_single_entry for <Ntry>.
ParseBlock(tag, content) ==
    IF tag = "Bal" THEN parse_single_balance(content) ELSE parse_single_entry(content)

\* The block loop of parse_balances and of parse_entries: the items pushed so
\* far and those of the blocks <tag>...</tag> of content from offset pos on.
\* A block that fails to parse is left out; a panic ends the call.
RECURSIVE ScanBlocks(_, _, _, _)
ScanBlocks(content, tag, pos, items) ==
    LET abs_start == pos + FindFrom(content, "<" \o tag \o ">", pos)
        close == FindFrom(content, "</" \o tag \o ">", abs_start)
        next == IF close = -1 THEN Len(content) + Len(tag) + 3
                ELSE abs_start + close + Len(tag) + 3
    IN  IF ~items.ok THEN Panic
        ELSE IF FindFrom(content, "<" \o tag \o ">", pos) = -1 THEN items
        ELSE IF ~SliceOk(content, abs_start, next) THEN Panic
        ELSE ScanBlocks(content, tag, next,
                        PushParsed(items, ParseBlock(tag, Slice(content, abs_start, next))))

\* Camt053Statement::parse_balances
parse_balances(content) == ScanBlocks(content, "Bal", 0, Ok(<<>>))

\* Camt053Statement::parse_entries
parse_entries(content) == ScanBlocks(content, "Ntry", 0, Ok(<<>>))

\* Camt053Statement::parse_account
parse_account(content) ==
    LET acct_start == IF Find(content, "<Acct>") = -1 THEN 0
                      ELSE Find(content, "<Acct>")
        acct_end == IF Find(content, "</Acct>") = -1 THEN Len(content)
                    ELSE Find(content, "</Acct>")
        acct_content == Slice(content, acct_start, acct_end)
        ownr_start == Find(acct_content, "<Ownr>")
        ownr_end == IF Find(acct_content, "</Ownr>") = -1 THEN Len(acct_content)
                    ELSE Find(acct_content, "</Ownr>")
    IN  IF ~SliceOk(content, acct_start, acct_end) THEN Panic
        ELSE IF ownr_start # -1 /\ ~SliceOk(acct_content, ownr_start, ownr_end) THEN Panic
        ELSE Ok([iban |-> extract_element_value(acct_content, "IBAN"),
                 currency |-> IF extract_element_value(acct_content, "Ccy") = None
                              THEN "EUR"
                              ELSE extract_element_value(acct_content, "Ccy")[1],
                 name |-> extract_element_value(acct_content, "Nm"),
                 owner_name |->
                     IF ownr_start = -1 THEN None
                     ELSE extract_element_value(
                              Slice(acct_content, ownr_start, ownr_end), "Nm")])

\* The Camt053Statement of the parsed elements of a document.
Camt053StatementOf(message_id, creation_date_time, statement_id, account, balances, entries) ==
    IF statement_id = None THEN Err("MissingField")
    ELSE IF ~account.ok THEN Panic
    ELSE IF ~balances.ok THEN Panic
    ELSE IF ~entries.ok THEN Panic
    ELSE Ok([message_id |-> message_id[1],
             creation_date_time |-> creation_date_time[1],
             statement_id |-> statement_id[1],
             account |-> account.val,
             balances |-> balances.val,
             entries |-> entries.val])

\* parse with the message id and the creation time looked up before the
\* root marker.
Camt053_parse_fields_first(raw) ==
    LET content == Trim(raw)
        stmt_start == Find(content, "<Stmt>")
        stmt_end == Find(content, "</Stmt>")
        stmt_content == Slice(content, stmt_start, stmt_end + 7)
    IN  IF extract_element_value(content, "MsgId") = None THEN Err("MissingField")
        ELSE IF extract_element_value(content, "CreDtTm") = None THEN Err("MissingField")
        ELSE IF ~Contains(content, "<BkToCstmrStmt>") THEN Err("InvalidFormat")
        ELSE IF stmt_start = -1 THEN Err("InvalidFormat")
        ELSE IF stmt_end = -1 THEN Err("InvalidFormat")
        ELSE IF ~SliceOk(content, stmt_start, stmt_end + 7) THEN Panic
        ELSE Camt053StatementOf(extract_element_value(content, "MsgId"),
                                extract_element_value(content, "CreDtTm"),
                                extract_element_value(stmt_content, "Id"),
                                parse_account(stmt_content),
                                parse_balances(stmt_content),
                                parse_entries(stmt_content))

\* Camt053Statement::parse
Camt053_parse(raw) ==
    LET content == Trim(raw)
        stmt_start == Find(content, "<Stmt>")
        stmt_end == Find(content, "</Stmt>")
        stmt_content == Slice(content, stmt_start, stmt_end + 7)
    IN  IF ~Contains(content, "<BkToCstmrStmt>") THEN Err("InvalidFormat")
        ELSE IF extract_element_value(content, "MsgId") = None THEN Err("MissingField")
        ELSE IF extract_element_value(content, "CreDtTm") = None THEN Err("MissingField")
        ELSE IF stmt_start = -1 THEN Err("InvalidFormat")
        ELSE IF stmt_end = -1 THEN Err("InvalidFormat")
        ELSE IF ~SliceOk(content, stmt_start, stmt_end + 7) THEN Panic
        ELSE Camt053StatementOf(extract_element_value(content, "MsgId"),
                                extract_element_value(content, "CreDtTm"),
                                extract_element_value(stmt_content, "Id"),
                                parse_account(stmt_content),
                                parse_balances(stmt_content),
                                parse_entries(stmt_content))

\* The document of tests/integration_tests.rs.
SAMPLE_CAMT053 ==
    "<?xml version=\"1.0\" encoding=\"UTF-8\"?>\n"
    \o "<Document xmlns=\"urn:iso:std:iso:20022:tech:xsd:camt.053.001.02\">\n"
    \o "<BkToCstmrStmt>\n<GrpHdr>\n<MsgId>SAMPLE001</MsgId>\n"
    \o "<CreDtTm>2024-01-01T00:00:00</CreDtTm>\n</GrpHdr>\n"
    \o "<Stmt>\n<Id>STMT001</Id>\n"
    \o "<Acct>\n<Id>\n<IBAN>DK8030000001234567</IBAN>\n</Id>\n<Ccy>DKK</Ccy>\n"
    \o "<Nm>Sample Account</Nm>\n</Acct>\n"
    \o "<Bal>\n<Tp>\n<CdOrPrtry>\n<Cd>OPBD</Cd>\n</CdOrPrtry>\n</Tp>\n"
    \o "<Amt Ccy=\"DKK\">10000.00</Amt>\n<CdtDbtInd>CRDT</CdtDbtInd>\n"
    \o "<Dt>\n<Dt>2024-01-01</Dt>\n</Dt>\n</Bal>\n"
    \o "<Bal>\n<Tp>\n<CdOrPrtry>\n<Cd>CLBD</Cd>\n</CdOrPrtry>\n</Tp>\n"
    \o "<Amt Ccy=\"DKK\">10591.15</Amt>\n<CdtDbtInd>CRDT</CdtDbtInd>\n"
    \o "<Dt>\n<Dt>2024-01-31</Dt>\n</Dt>\n</Bal>\n"
    \o "<Ntry>\n<Amt Ccy=\"DKK\">591.15</Amt>\n<CdtDbtInd>CRDT</CdtDbtInd>\n"
    \o "<BookgDt>\n<Dt>2024-01-15</Dt>\n</BookgDt>\n"
    \o "<NtryDtls>\n<TxDtls>\n<Refs>\n<EndToEndId>E2E001</EndToEndId>\n</Refs>\n"
    \o "<RmtInf>\n<Ustrd>Payment for invoice</Ustrd>\n</RmtInf>\n"
    \o "</TxDtls>\n</NtryDtls>\n</Ntry>\n"
    \o "</Stmt>\n</BkToCstmrStmt>\n</Document>\n"

(***************************************************************************)
(* ypbank-parser: conversions between the formats.                         *)
(***************************************************************************)

\* The direction indicator convert.rs gives a direction code of MT940.
IndicatorOf(credit_debit) ==
    IF credit_debit = "C" THEN CREDIT_INDICATOR ELSE DEBIT_INDICATOR

\* Mutant of Mt940_to_Camt053_entry: the counterparty is always the creditor.
Mt940_to_Camt053_entry_creditor_always(idx, tx, currency) ==
    [entry_ref |-> Some(ToString(idx + 1)),
     amount |-> tx.amount,
     currency |-> currency,
     credit_debit_indicator |-> IndicatorOf(tx.credit_debit),
     booking_date |-> tx.date,
     value_date |-> tx.value_date,
     account_servicer_ref |-> tx.reference,
     transaction_details |->
         <<[end_to_end_id |-> Some(END_TO_END_NOT_PROVIDED),
            transaction_id |-> tx.reference,
            amount |-> Some(tx.amount),
            currency |-> Some(currency),
            debtor_name |-> None,
            debtor_account |-> None,
            creditor_name |-> Some(tx.details),
            creditor_account |-> tx.reference,
            remittance_info |-> IF tx.details = "" THEN <<>> ELSE <<tx.details>>]>>]

\* From<Mt940Statement> for Camt053Statement: the closure that maps the
\* transaction at index idx (from 0) to its entry.
Mt940_to_Camt053_entry(idx, tx, currency) ==
    [entry_ref |-> Some(ToString(idx + 1)),
     amount |-> tx.amount,
     currency |-> currency,
     credit_debit_indicator |-> IndicatorOf(tx.credit_debit),
     booking_date |-> tx.date,
     value_date |-> tx.value_date,
     account_servicer_ref |-> tx.reference,
     transaction_details |->
         <<[end_to_end_id |-> Some(END_TO_END_NOT_PROVIDED),
            transaction_id |-> tx.reference,
            amount |-> Some(tx.amount),
            currency |-> Some(currency),
            debtor_name |-> IF tx.credit_debit = "C" THEN Some(tx.details) ELSE None,
            debtor_account |-> IF tx.credit_debit = "C" THEN tx.reference ELSE None,
            creditor_name |-> IF tx.credit_debit = "C" THEN None ELSE Some(tx.details),
            creditor_account |-> IF tx.credit_debit = "C" THEN None ELSE tx.reference,
            remittance_info |-> IF tx.details = "" THEN <<>> ELSE <<tx.details>>]>>]

\* The Camt053Balance convert.rs builds from a balance of MT940.
Mt940_to_Camt053_balance(balance_type, balance, currency) ==
    [balance_type |-> balance_type,
     amount |-> balance.amount,
     currency |-> currency,
     credit_debit_indicator |-> IndicatorOf(balance.credit_debit),
     date |-> balance.date]

\* Mutant of Mt940_to_Camt053: the closing balance is pushed first.
Mt940_to_Camt053_closing_first(mt940) ==
    LET currency == mt940.opening_balance.currency
    IN  [message_id |-> "MT940-" \o mt940.reference,
         creation_date_time |-> "2024-01-01T00:00:00",
         statement_id |-> mt940.statement_number,
         account |-> [iban |-> IF Len(mt940.account_id) > 10
                               THEN Some(mt940.account_id) ELSE None,
                      currency |-> currency, name |-> None, owner_name |-> None],
         balances |->
             <<Mt940_to_Camt053_balance(BALANCE_TYPE_CLOSING, mt940.closing_balance,
                                        mt940.closing_balance.currency),
               Mt940_to_Camt053_balance(BALANCE_TYPE_OPENING, mt940.opening_balance,
                                        currency)>>,
         entries |-> [k \in 1..Len(mt940.transactions) |->
                         Mt940_to_Camt053_entry(k - 1, mt940.transactions[k], currency)]]

\* From<Mt940Statement> for Camt053Statement
Mt940_to_Camt053(mt940) ==
    LET currency == mt940.opening_balance.currency
    IN  [message_id |-> "MT940-" \o mt940.reference,
         creation_date_time |-> "2024-01-01T00:00:00",
         statement_id |-> mt940.statement_number,
         account |-> [iban |-> IF Len(mt940.account_id) > 10
                               THEN Some(mt940.account_id) ELSE None,
                      currency |-> currency, name |-> None, owner_name |-> None],
         balances |->
             <<Mt940_to_Camt053_balance(BALANCE_TYPE_OPENING, mt940.opening_balance,
                                        currency),
               Mt940_to_Camt053_balance(BALANCE_TYPE_CLOSING, mt940.closing_balance,
                                        mt940.closing_balance.currency)>>,
         entries |-> [k \in 1..Len(mt940.transactions) |->
                         Mt940_to_Camt053_entry(k - 1, mt940.transactions[k], currency)]]

\* The index of the last balance of the given type, 0 without one.
RECURSIVE LastBalanceOf(_, _, _)
LastBalanceOf(balances, balance_type, k) ==
    IF k = 0 THEN 0
    ELSE IF balances[k].balance_type = balance_type THEN k
    ELSE LastBalanceOf(balances, balance_type, k - 1)

\* Mutant of Camt053_to_Mt940_balance: every balance is a credit.
Camt053_to_Mt940_balance_credit(b) ==
    [credit_debit |-> "C",
     date |-> b.date,
     currency |-> b.currency,
     amount |-> b.amount]

\* The Mt940Balance convert.rs builds from a balance of CAMT.053.
Camt053_to_Mt940_balance(b) ==
    [credit_debit |-> IF b.credit_debit_indicator = CREDIT_INDICATOR THEN "C" ELSE "D",
     date |-> b.date,
     currency |-> b.currency,
     amount |-> b.amount]

\* TryFrom<Camt053Statement> for Mt940Statement: the closure that maps an
\* entry to its transaction.
Camt053_to_Mt940_transaction(entry) ==
    LET has_details == entry.transaction_details # <<>>
        d == entry.transaction_details[1]
        parts == d.debtor_name \o d.creditor_name \o d.debtor_account
                     \o d.creditor_account \o d.remittance_info
    IN  [date |-> entry.booking_date,
         value_date |-> entry.value_date,
         credit_debit |->
             IF entry.credit_debit_indicator = CREDIT_INDICATOR THEN "C" ELSE "D",
         amount |-> entry.amount,
         transaction_type |-> TRANSACTION_TYPE_TRANSFER,
         reference |-> IF has_details /\ d.transaction_id # None
                       THEN d.transaction_id ELSE entry.account_servicer_ref,
         details |-> IF has_details THEN Join(parts, " ") ELSE ""]

\* TryFrom<Camt053Statement> for Mt940Statement
Camt053_try_into_Mt940(camt) ==
    LET opening == LastBalanceOf(camt.balances, BALANCE_TYPE_OPENING, Len(camt.balances))
        closing == LastBalanceOf(camt.balances, BALANCE_TYPE_CLOSING, Len(camt.balances))
    IN  IF opening = 0 THEN Err("MissingField")
        ELSE IF closing = 0 THEN Err("MissingField")
        ELSE Ok([reference |-> Replace(camt.message_id, "MT940-", ""),
                 account_id |-> IF camt.account.iban = None THEN "UNKNOWN"
                                ELSE camt.account.iban[1],
                 statement_number |-> camt.statement_id,
                 opening_balance |-> Camt053_to_Mt940_balance(camt.balances[opening]),
                 closing_balance |-> Camt053_to_Mt940_balance(camt.balances[closing]),
                 transactions |-> [k \in 1..Len(camt.entries) |->
                                      Camt053_to_Mt940_transaction(camt.entries[k])]])

\* Amount::new
Amount(value, currency) == [value |-> value, currency |-> currency]

\* The Balance of a Statement built from a balance of MT940.
Mt940_to_Statement_balance(b) ==
    [amount |-> Amount(IF b.credit_debit = "D" THEN -b.amount ELSE b.amount, b.currency),
     date |-> b.date,
     is_credit |-> b.credit_debit = "C"]

\* Mutant of Mt940_to_Statement: every transaction is a credit.
Mt940_to_Statement_all_credit(mt940) ==
    [account |-> [iban |-> IF StartsWith(mt940.account_id, "NL")
                              \/ StartsWith(mt940.account_id, "DE")
                              \/ StartsWith(mt940.account_id, "DK")
                           THEN Some(mt940.account_id) ELSE None,
                  number |-> mt940.account_id,
                  currency |-> mt940.opening_balance.currency,
                  name |-> None, owner |-> None],
     opening_balance |-> Mt940_to_Statement_balance(mt940.opening_balance),
     closing_balance |-> Mt940_to_Statement_balance(mt940.closing_balance),
     transactions |->
         [k \in 1..Len(mt940.transactions) |->
             LET tx == mt940.transactions[k]
             IN  [date |-> tx.date,
                  value_date |-> tx.value_date,
                  amount |-> Amount(tx.amount, mt940.opening_balance.currency),
                  is_credit |-> TRUE,
                  reference |-> tx.reference,
                  description |-> tx.details,
                  counterparty |->
                      IF tx.details # ""
                      THEN Some([name |-> Some(tx.details), account |-> tx.reference,
                                 bank_code |-> None, bank_name |-> None])
                      ELSE None]],
     statement_number |-> Some(mt940.statement_number),
     reference |-> Some(mt940.reference)]

\* From<Mt940Statement> for Statement
Mt940_to_Statement(mt940) ==
    [account |-> [iban |-> IF StartsWith(mt940.account_id, "NL")
                              \/ StartsWith(mt940.account_id, "DE")
                              \/ StartsWith(mt940.account_id, "DK")
                           THEN Some(mt940.account_id) ELSE None,
                  number |-> mt940.account_id,
                  currency |-> mt940.opening_balance.currency,
                  name |-> None, owner |-> None],
     opening_balance |-> Mt940_to_Statement_balance(mt940.opening_balance),
     closing_balance |-> Mt940_to_Statement_balance(mt940.closing_balance),
     transactions |->
         [k \in 1..Len(mt940.transactions) |->
             LET tx == mt940.transactions[k]
             IN  [date |-> tx.date,
                  value_date |-> tx.value_date,
                  amount |-> Amount(tx.amount, mt940.opening_balance.currency),
                  is_credit |-> tx.credit_debit = "C",
                  reference |-> tx.reference,
                  description |-> tx.details,
                  counterparty |->
                      IF tx.details # ""
                      THEN Some([name |-> Some(tx.details), account |-> tx.reference,
                                 bank_code |-> None, bank_name |-> None])
                      ELSE None]],
     statement_number |-> Some(mt940.statement_number),
     reference |-> Some(mt940.reference)]

\* The index of the first balance of the given type from k on, 0 without one.
RECURSIVE FirstBalanceOf(_, _, _)
FirstBalanceOf(balances, balance_type, k) ==
    IF k > Len(balances) THEN 0
    ELSE IF balances[k].balance_type = balance_type THEN k
    ELSE FirstBalanceOf(balances, balance_type, k + 1)

\* The Balance of a Statement built from a balance of CAMT.053.
Camt053_to_Statement_balance(b) ==
    [amount |-> Amount(IF b.credit_debit_indicator = DEBIT_INDICATOR
                       THEN -b.amount ELSE b.amount, b.currency),
     date |-> b.date,
     is_credit |-> b.credit_debit_indicator = CREDIT_INDICATOR]

\* From<Camt053Statement> for Statement
Camt053_to_Statement(camt) ==
    LET opening == FirstBalanceOf(camt.balances, BALANCE_TYPE_OPENING, 1)
        closing == FirstBalanceOf(camt.balances, BALANCE_TYPE_CLOSING, 1)
    IN  [account |-> [iban |-> camt.account.iban,
                      number |-> IF camt.account.iban = None THEN "UNKNOWN"
                                 ELSE camt.account.iban[1],
                      currency |-> camt.account.currency,
                      name |-> camt.account.name,
                      owner |-> camt.account.owner_name],
         opening_balance |->
             IF opening # 0 THEN Camt053_to_Statement_balance(camt.balances[opening])
             ELSE [amount |-> Amount(0, camt.account.currency),
                   date |-> Date(2024, 1, 1), is_credit |-> TRUE],
         closing_balance |->
             IF closing # 0 THEN Camt053_to_Statement_balance(camt.balances[closing])
             ELSE [amount |-> Amount(0, camt.account.currency),
                   date |-> Date(2024, 12, 31), is_credit |-> TRUE],
         transactions |->
             [k \in 1..Len(camt.entries) |->
                 LET entry == camt.entries[k]
                     is_credit == entry.credit_debit_indicator = CREDIT_INDICATOR
                     has_details == entry.transaction_details # <<>>
                     details == entry.transaction_details[1]
                 IN  [date |-> entry.booking_date,
                      value_date |-> entry.value_date,
                      amount |-> Amount(entry.amount, entry.currency),
                      is_credit |-> is_credit,
                      reference |-> entry.account_servicer_ref,
                      description |-> IF has_details
                                      THEN Join(details.remittance_info, " ") ELSE "",
                      counterparty |->
                          IF ~has_details THEN None
                          ELSE IF is_credit
                          THEN Some([name |-> details.debtor_name,
                                     account |-> details.debtor_account,
                                     bank_code |-> None, bank_name |-> None])
                          ELSE Some([name |-> details.creditor_name,
                                     account |-> details.creditor_account,
                                     bank_code |-> None, bank_name |-> None])]],
         statement_number |-> Some(camt.statement_id),
         reference |-> Some(camt.message_id)]

(***************************************************************************)
(* ypbank-parser: the CSV codec.  The Cyrillic words the code looks for    *)
(* are spelled in Latin letters here.                                      *)
(***************************************************************************)
RECURSIVE TrimMatches(_, _)
\* str::trim_matches(c)
TrimMatches(text, c) ==
    IF text # "" /\ CharAt(text, Len(text) - 1) = c
    THEN TrimMatches(Slice(text, 0, Len(text) - 1), c)
    ELSE TrimStartMatches(text, c)

\* The loops over the parts of a header line: the first part, trimmed and
\* without its quotes, that is an account number of twenty digits or, for
\* is_name, that holds a mark of a legal form; "" without such a part.
HeaderPart(line, is_name) ==
    LET parts == Split(line, ",")
        trimmed == [k \in 1..Len(parts) |-> TrimMatches(Trim(parts[k]), "\"")]
        hits == { k \in 1..Len(parts) :
                    IF is_name
                    THEN Contains(trimmed[k], "OOO") \/ Contains(trimmed[k], "IP")
                         \/ Contains(trimmed[k], "AO")
                    ELSE Len(trimmed[k]) = 20 /\ IsDigits(trimmed[k]) }
    IN  IF hits = {} THEN "" ELSE trimmed[First(hits)]

\* CsvStatement::parse_header: of the first ten lines the last one with a
\* hit sets the number and the name; the sixth line is tried again for the
\* number.
parse_header(lines) ==
    LET head == 1..(IF Len(lines) < 10 THEN Len(lines) ELSE 10)
        numbered == { k \in head : /\ \/ Contains(lines[k], "40702")
                                      \/ Contains(lines[k], "40703")
                                      \/ Contains(lines[k], "40817")
                                   /\ HeaderPart(lines[k], FALSE) # "" }
        named == { k \in head : \/ Contains(lines[k], "OOO")
                                \/ Contains(lines[k], "IP")
                                \/ Contains(lines[k], "AO") }
        number == IF numbered # {} THEN HeaderPart(lines[-First({-k : k \in numbered})], FALSE)
                  ELSE IF Len(lines) > 5 THEN HeaderPart(lines[6], FALSE)
                  ELSE ""
    IN  [account_number |-> IF number = "" THEN "UNKNOWN" ELSE number,
         account_name |-> IF named = {} THEN "Neizvestno"
                          ELSE HeaderPart(lines[-First({-k : k \in named})], TRUE)]

\* CsvStatement::is_valid_date
is_valid_date(s) ==
    /\ Len(s) = 10
    /\ Len(Split(s, ".")) = 3
    /\ Len(Split(s, ".")[1]) = 2
    /\ Len(Split(s, ".")[2]) = 2
    /\ Len(Split(s, ".")[3]) = 4
    /\ \A k \in 1..3 : IsDigits(Split(s, ".")[k])

\* Mutant of has_unclosed_quotes: any quote character leaves the record open.
has_unclosed_quotes_any(s) == Len(Split(s, "\"")) - 1 > 0

\* CsvStatement::has_unclosed_quotes
has_unclosed_quotes(s) == (Len(Split(s, "\"")) - 1) % 2 # 0

\* The offset of the first character from pos on that the loop of
\* parse_csv_fields does not push to the current field: a quote character,
\* or a comma outside quotes; the length of the record without one.
CsvNextMark(record, pos, in_quotes) ==
    LET marks == { p \in pos..(Len(record) - 1) :
                     \/ CharAt(record, p) = "\""
                     \/ CharAt(record, p) = "," /\ ~in_quotes }
    IN  IF marks = {} THEN Len(record) ELSE First(marks)

RECURSIVE CsvFieldsScan(_, _, _, _, _)
\* The loop of parse_csv_fields from the character at pos on, which is a
\* quote character or a comma outside quotes; the characters after it up to
\* the next such character are pushed to the current field at once.
CsvFieldsScan(record, pos, in_quotes, current_field, fields) ==
    IF pos >= Len(record) THEN Append(fields, Trim(current_field))
    ELSE IF CharAt(record, pos) = ","
    THEN CsvFieldsScan(record, CsvNextMark(record, pos + 1, in_quotes), in_quotes,
                       Slice(record, pos + 1, CsvNextMark(record, pos + 1, in_quotes)),
                       Append(fields, Trim(current_field)))
    ELSE IF in_quotes /\ pos + 1 < Len(record) /\ CharAt(record, pos + 1) = "\""
    THEN CsvFieldsScan(record, CsvNextMark(record, pos + 2, in_quotes), in_quotes,
                       current_field \o "\""
                           \o Slice(record, pos + 2, CsvNextMark(record, pos + 2, in_quotes)),
                       fields)
    ELSE CsvFieldsScan(record, CsvNextMark(record, pos + 1, ~in_quotes), ~in_quotes,
                       current_field
                           \o Slice(record, pos + 1, CsvNextMark(record, pos + 1, ~in_quotes)),
                       fields)

\* Mutant of parse_csv_fields: the record is split at every comma.
parse_csv_fields_every_comma(record) ==
    [k \in 1..Len(Split(record, ",")) |-> Trim(TrimMatches(Trim(Split(record, ",")[k]), "\""))]

\* CsvStatement::parse_csv_fields
parse_csv_fields(record) ==
    CsvFieldsScan(record, CsvNextMark(record, 0, FALSE), FALSE,
                  Slice(record, 0, CsvNextMark(record, 0, FALSE)), <<>>)

\* CsvStatement::parse_date
Csv_parse_date(date_str) ==
    LET parts == Split(Trim(date_str), ".")
    IN  IF Len(parts) # 3 THEN Err("Parse")
        ELSE IF ~ParseUnsigned(parts[1], 255).ok THEN Err("Parse")
        ELSE IF ~ParseUnsigned(parts[2], 255).ok THEN Err("Parse")
        ELSE IF ~ParseUnsigned(parts[3], 65535).ok THEN Err("Parse")
        ELSE Ok(Date(ParseUnsigned(parts[3], 65535).val,
                     ParseUnsigned(parts[2], 255).val,
                     ParseUnsigned(parts[1], 255).val))

\* parse_transaction_record from the fields of the record: fields[n] of the
\* code is fields[n + 1] here.
CsvTransactionOf(fields) ==
    IF Len(fields) < 20 THEN Err("Parse")
    ELSE IF ~Csv_parse_date(fields[2]).ok THEN Err("Parse")
    ELSE Ok([date |-> Csv_parse_date(fields[2]).val,
             debit_account |-> IF fields[5] # "" THEN Some(Lines(fields[5])[1])
                               ELSE None,
             credit_account |-> IF fields[9] # "" THEN Some(Lines(fields[9])[1])
                                ELSE None,
             debit_amount |-> parse_amount_field(fields[10]),
             credit_amount |-> parse_amount_field(fields[14]),
             document_number |-> fields[15],
             bank_info |-> fields[18],
             description |-> IF Len(fields) > 20 THEN fields[21] ELSE ""])

\* CsvStatement::parse_transaction_record
parse_transaction_record(record) == CsvTransactionOf(parse_csv_fields(record))

RECURSIVE AbsorbLines(_, _, _)
\* The inner loop of parse_transactions: lines[j] is appended to the record
\* while the record has an open quote and a line is left.
AbsorbLines(lines, j, full_record) ==
    IF j < Len(lines) /\ has_unclosed_quotes(full_record)
    THEN AbsorbLines(lines, j + 1, full_record \o "\n" \o lines[j + 1])
    ELSE [j |-> j, full_record |-> full_record]

\* The end of an iteration that found a row: the record is parsed and kept
\* or left out with a warning, and the scan goes on after the absorbed lines.
PushRecord(transactions, absorbed) ==
    [i |-> absorbed.j,
     transactions |-> PushParsed(transactions,
                                 parse_transaction_record(absorbed.full_record))]

\* One iteration of the loop of parse_transactions at lines[i].
ParseTransactionsStep(lines, i, transactions) ==
    LET line == lines[i + 1]
    IN  IF \/ Trim(line) = ""
           \/ Contains(line, "Kolichestvo operacij")
           \/ Contains(line, "Vhodyashchij ostatok")
           \/ Contains(line, "Ishodyashchij ostatok")
           \/ Contains(line, "Itogo oborotov")
        THEN [i |-> i + 1, transactions |-> transactions]
        ELSE IF /\ Len(Split(line, ",")) > 1
                /\ is_valid_date(TrimMatches(Trim(Split(line, ",")[2]), "\""))
        THEN PushRecord(transactions, AbsorbLines(lines, i + 1, line))
        ELSE [i |-> i + 1, transactions |-> transactions]

RECURSIVE ParseTransactionsFrom(_, _)
\* The loop of parse_transactions from the locals i and transactions on.
ParseTransactionsFrom(lines, locals) ==
    IF locals.i < Len(lines)
    THEN ParseTransactionsFrom(lines,
                               ParseTransactionsStep(lines, locals.i, locals.transactions))
    ELSE locals.transactions

\* CsvStatement::parse_transactions
parse_transactions(lines) == ParseTransactionsFrom(lines, [i |-> 0, transactions |-> Ok(<<>>)])

\* The end of CsvStatement::parse.
CsvStatementOf(header, transactions) ==
    Ok([account_number |-> header.account_number,
        account_name |-> header.account_name,
        currency |-> "RUB",
        transactions |-> transactions.val])

\* CsvStatement::parse
Csv_parse(content) ==
    IF Len(Lines(content)) < 12 THEN Err("InvalidFormat")
    ELSE CsvStatementOf(parse_header(Lines(content)),
                        parse_transactions(SubSeq(Lines(content), 13, Len(Lines(content)))))

\* CsvStatement::extract_bik: the mark is six bytes long, so the text from
\* four bytes after its start begins with the last letter of the mark, no
\* digit is taken and the length of the taken text is never nine.
extract_bik(bank_info) == None

\* i64 addition without overflow checks: the sum wraps.
WrappingAdd(a, b) ==
    IF a + b > I64_MAX THEN a + b - I64_MAX - I64_MAX - 2
    ELSE IF a + b < -I64_MAX - 1 THEN a + b + I64_MAX + I64_MAX + 2
    ELSE a + b

\* The signed amount `balance += credit` or `balance -= debit` adds for a
\* transaction.
CsvSignedAmount(tx) ==
    IF tx.credit_amount # None THEN tx.credit_amount[1]
    ELSE IF tx.debit_amount # None THEN -tx.debit_amount[1]
    ELSE 0

RECURSIVE CsvBalance(_, _, _, _)
\* The variable balance of the conversion after the transactions from k on:
\* an overflow of the addition panics in a build with overflow checks and
\* wraps in a build without.
CsvBalance(transactions, k, balance, overflow_checks) ==
    IF k > Len(transactions) THEN Ok(balance)
    ELSE IF /\ overflow_checks
            /\ WrappingAdd(balance, CsvSignedAmount(transactions[k]))
                   # balance + CsvSignedAmount(transactions[k])
    THEN Panic
    ELSE CsvBalance(transactions, k + 1,
                    WrappingAdd(balance, CsvSignedAmount(transactions[k])),
                    overflow_checks)

\* The Statement of the conversion with the final value of balance.
CsvStatementWith(csv, balance) ==
    IF ~balance.ok THEN Panic
    ELSE Ok([account |-> [iban |-> None, number |-> csv.account_number,
                          currency |-> csv.currency,
                          name |-> Some(csv.account_name), owner |-> None],
             opening_balance |->
                 [amount |-> Amount(0, csv.currency),
                  date |-> IF csv.transactions = <<>> THEN Date(2024, 1, 1)
                           ELSE csv.transactions[1].date,
                  is_credit |-> TRUE],
             closing_balance |->
                 [amount |-> Amount(balance.val, csv.currency),
                  date |-> IF csv.transactions = <<>> THEN Date(2024, 12, 31)
                           ELSE csv.transactions[Len(csv.transactions)].date,
                  is_credit |-> balance.val >= 0],
             transactions |->
                 [k \in 1..Len(csv.transactions) |->
                     LET tx == csv.transactions[k]
                         is_credit == tx.credit_amount # None \/ tx.debit_amount = None
                     IN  [date |-> tx.date,
                          value_date |-> None,
                          amount |-> Amount(IF tx.credit_amount # None
                                            THEN tx.credit_amount[1]
                                            ELSE IF tx.debit_amount # None
                                            THEN tx.debit_amount[1]
                                            ELSE 0, csv.currency),
                          is_credit |-> is_credit,
                          reference |-> Some(tx.document_number),
                          description |-> tx.description,
                          counterparty |->
                              Some([name |-> None,
                                    account |-> IF is_credit THEN tx.debit_account
                                                ELSE tx.credit_account,
                                    bank_code |-> extract_bik(tx.bank_info),
                                    bank_name |-> Some(tx.bank_info)])]],
             statement_number |-> None,
             reference |-> None])

\* From<CsvStatement> for Statement, in a build with or without overflow
\* checks.
Csv_to_Statement(csv, overflow_checks) ==
    CsvStatementWith(csv, CsvBalance(csv.transactions, 1, 0, overflow_checks))

\* The end of parse_statements: the statements of the parsed document, each
\* converted by its From.
StatementsOf(format, parsed, overflow_checks) ==
    IF ~parsed.ok THEN parsed
    ELSE IF format = "Mt940"
    THEN Ok([k \in 1..Len(parsed.val) |-> Mt940_to_Statement(parsed.val[k])])
    ELSE IF format = "Camt053" THEN Ok(<<Camt053_to_Statement(parsed.val)>>)
    ELSE IF Csv_to_Statement(parsed.val, overflow_checks).ok
    THEN Ok(<<Csv_to_Statement(parsed.val, overflow_checks).val>>)
    ELSE Panic

\* ypbank_parser::parse_statements
parse_statements(content, format, overflow_checks) ==
    StatementsOf(format,
                 IF format = "Mt940" THEN Mt940_parse(content)
                 ELSE IF format = "Camt053" THEN Camt053_parse(content)
                 ELSE Csv_parse(content),
                 overflow_checks)

(***************************************************************************)
(* ypbank-converter: convert_and_write.  The sink is a buffer in memory,   *)
(* whose writes cannot fail.  The Cyrillic words the code writes are       *)
(* spelled in Latin letters here.                                          *)
(***************************************************************************)
Formats == {"Mt940", "Camt053", "Csv"}

\* Display for Date
Date_to_string(d) == Fmt04(d.year) \o "-" \o Fmt02(d.month) \o "-" \o Fmt02(d.day)

\* format!("{:.2}", amount.as_float())
FormatFloat2(value) ==
    (IF value < 0 THEN "-" ELSE "")
        \o ToString(Abs(value) \div 100) \o "." \o Fmt02(Abs(value) % 100)

\* One row of write_csv.
write_csv_row(tx) ==
    Date_to_string(tx.date) \o "," \o FormatFloat2(tx.amount.value) \o ","
        \o tx.amount.currency \o ","
        \o (IF tx.is_credit THEN "Postuplenie" ELSE "Spisanie") \o ","
        \o (IF tx.reference = None THEN "" ELSE tx.reference[1]) \o ",\""
        \o Replace(Replace(tx.description, ",", ";"), "\n", " ") \o "\"\n"

\* write_csv: the bytes written to the sink.
write_csv(statement) ==
    "Data,Summa,Valyuta,Tip,Referens,Opisanie\n"
        \o Join([k \in 1..Len(statement.transactions) |->
                   write_csv_row(statement.transactions[k])], "")

\* parse_statements followed by the first statement, from the result of the
\* parser of the format: the `?` passes an error on.
FirstStatement(format, parsed) ==
    IF ~parsed.ok THEN parsed
    ELSE Ok(IF format = "Mt940" THEN Mt940_to_Statement(parsed.val[1])
            ELSE Camt053_to_Statement(parsed.val))

\* ypbank_parser::parse_statement for the two formats convert_and_write
\* passes to it: the first statement of the content.
parse_statement(content, format) ==
    FirstStatement(format,
                   IF format = "Mt940" THEN Mt940_parse(content)
                   ELSE Camt053_parse(content))

\* What a call of convert_and_write leaves: the bytes in the sink and the
\* result.
Outcome(sink, result) == [sink |-> sink, result |-> result]

\* Result::map_err to a message; a panic stays a panic.
map_err(r, message) ==
    IF r.ok THEN r ELSE IF r.err = "panic" THEN Panic ELSE Err(message)

\* The conversion of the parsed CAMT.053 statement to MT940: the TryFrom of
\* convert.rs, whose error ends the call like the other errors.
TryIntoMt940(camt) ==
    IF ~camt.ok THEN camt
    ELSE map_err(Camt053_try_into_Mt940(camt.val), "Err(convert)")

\* The end of an arm of the match: the `?` on the parsed input, then the
\* writer of the output format on the empty sink, for CAMT.053 once for each
\* of the parsed MT940 statements.
WriteParsed(output_format, parsed) ==
    IF ~parsed.ok THEN Outcome("", parsed.err)
    ELSE Outcome(IF output_format = "Camt053"
                 THEN Join([k \in 1..Len(parsed.val) |->
                               Camt053_write_to(Mt940_to_Camt053(parsed.val[k]))], "")
                 ELSE IF output_format = "Mt940" THEN Mt940_write_to(parsed.val)
                 ELSE write_csv(parsed.val),
                 "Ok")

\* convert_and_write: the match on two different formats.
convert_between(content, input_format, output_format) ==
    IF input_format = "Mt940" /\ output_format = "Camt053"
    THEN WriteParsed("Camt053", map_err(Mt940_parse(content), "Err(parse)"))
    ELSE IF input_format = "Camt053" /\ output_format = "Mt940"
    THEN WriteParsed("Mt940",
                     TryIntoMt940(map_err(Camt053_parse(content), "Err(parse)")))
    ELSE IF output_format = "Csv"
    THEN WriteParsed("Csv",
                     map_err(parse_statement(content, input_format), "Err(parse)"))
    ELSE Outcome("", "Err(not supported)")

\* Mutant of convert_and_write: the header of the table is written before
\* the conversion from CSV is refused.
convert_and_write_header_first(content, input_format, output_format) ==
    IF input_format = output_format THEN Outcome(content, "Ok")
    ELSE IF input_format = "Csv"
    THEN Outcome("Data,Summa,Valyuta,Tip,Referens,Opisanie\n", "Err(not supported)")
    ELSE convert_between(content, input_format, output_format)

\* Mutant of convert_and_write: with equal formats the content is trimmed
\* before it is written.
convert_and_write_trimmed(content, input_format, output_format) ==
    IF input_format = output_format THEN Outcome(Trim(content), "Ok")
    ELSE convert_between(content, input_format, output_format)

\* convert_and_write, called with an empty sink.
convert_and_write(content, input_format, output_format) ==
    IF input_format = output_format THEN Outcome(content, "Ok")
    ELSE convert_between(content, input_format, output_format)

\* A table in the delimited-text format.
SAMPLE_CSV ==
    "Data,Summa,Valyuta,Tip,Referens,Opisanie\n"
        \o "2024-01-15,591.15,DKK,Postuplenie,REF1,\"Payment\"\n"

\* The contents convert_and_write is called with: the samples; a document
\* of two MT940 statements, the second without transactions; a CAMT.053
\* document without balances; one whose balance block is not closed; texts
\* that are no document.
Contents ==
    {SAMPLE_MT940, SAMPLE_CAMT053, SAMPLE_CSV, "", "not a statement", ":20:X\n:25:Y\n",
     SAMPLE_MT940
         \o "{1:F01ASNBNL21XXXX0000000000}{2:O940ASNBNL21XXXXN}{3:}{4:\n"
         \o ":20:0000000001\n:25:12345\n:28C:2/1\n"
         \o ":60F:D200102EUR10,00\n:62F:D200102EUR10,00\n-}{5:}\n",
     "<Document><BkToCstmrStmt><GrpHdr><MsgId>M1</MsgId>"
         \o "<CreDtTm>2024-01-01T00:00:00</CreDtTm></GrpHdr>"
         \o "<Stmt><Id>S1</Id><Acct><Id><IBAN>DK8030000001234567</IBAN></Id></Acct>"
         \o "<Ntry><Amt Ccy=\"DKK\">5.00</Amt><CdtDbtInd>DBIT</CdtDbtInd></Ntry>"
         \o "</Stmt></BkToCstmrStmt></Document>",
     "<BkToCstmrStmt><MsgId>M2</MsgId><CreDtTm>2024-01-01T00:00:00</CreDtTm>"
         \o "<Stmt><Id>S2</Id><Bal><Amt>1.00</Amt></Stmt></BkToCstmrStmt>"}

InitConvert ==
    /\ cv_content \in Contents
    /\ cv_in \in Formats
    /\ cv_out \in Formats
    /\ cv_sink = ""
    /\ cv_result = "running"
    /\ CmpIdle
    /\ FnIdle

\* The return of convert_and_write: the sink and the result it leaves.
Returns(outcome) ==
    /\ cv_sink' = outcome.sink
    /\ cv_result' = outcome.result

\* One call of convert_and_write.
ConvertAndWrite ==
    /\ cv_result = "running"
    /\ Returns(convert_and_write(cv_content, cv_in, cv_out))
    /\ UNCHANGED <<cv_content, cv_in, cv_out>>
    /\ UNCHANGED cmpVars
    /\ UNCHANGED fnVars

NextConvert == ConvertAndWrite

SpecConvert == InitConvert /\ [][NextConvert]_vars

(***************************************************************************)
(* convert_and_write: the claims.                                          *)
(***************************************************************************)

\* C5: a call with input format Csv and output format Mt940 or Camt053 ends
\* with the "not supported" error and leaves no byte in the sink, whatever
\* the content.
C5_CsvSourceRefused ==
    (cv_in = "Csv" /\ cv_out \in {"Mt940", "Camt053"} /\ cv_result # "running")
        => (cv_result = "Err(not supported)" /\ Len(cv_sink) = 0)

C5_Witness ==
    /\ cv_in = "Csv" /\ cv_out = "Camt053" /\ cv_content = SAMPLE_CSV
    /\ cv_result = "Err(not supported)" /\ cv_sink = ""

\* C6: a call with equal input and output formats succeeds and leaves in the
\* sink exactly the content, also when the content is no document of the
\* format.
C6_EqualFormatsPassThrough ==
    (cv_in \in Formats /\ cv_in = cv_out /\ cv_result # "running")
        => (cv_result = "Ok" /\ cv_sink = cv_content)

C6_Witness ==
    /\ cv_in = "Camt053" /\ cv_out = "Camt053" /\ cv_content = "not a statement"
    /\ cv_result = "Ok" /\ cv_sink = "not a statement"

(***************************************************************************)
(* The conversions of an MT940 statement, applied to statements drawn from *)
(* a pool.                                                                 *)
(***************************************************************************)

\* Transactions of MT940: as the parser returns them, one with a value date
\* before its booking date, and as the conversion from CAMT.053 builds them
\* (no value date, type NTRF).
Mt940TxPool ==
    {[date |-> Date(2020, 1, 2), value_date |-> Some(Date(2020, 1, 2)),
      credit_debit |-> "C", amount |-> 125000, transaction_type |-> "NTRF",
      reference |-> Some("REF1"), details |-> "ACME BV invoice 7"],
     [date |-> Date(2020, 1, 3), value_date |-> Some(Date(2020, 1, 3)),
      credit_debit |-> "D", amount |-> 6500, transaction_type |-> "NOVB",
      reference |-> None, details |-> "NL47INGB9999999999 hr gjlm paulissen"],
     [date |-> Date(2020, 1, 4), value_date |-> Some(Date(2020, 1, 3)),
      credit_debit |-> "C", amount |-> 50000, transaction_type |-> "NMSC",
      reference |-> None, details |-> ""],
     [date |-> Date(2020, 1, 5), value_date |-> None,
      credit_debit |-> "D", amount |-> 999, transaction_type |-> "NTRF",
      reference |-> None, details |-> ""],
     [date |-> Date(2020, 1, 6), value_date |-> Some(Date(2020, 1, 6)),
      credit_debit |-> "R", amount |-> 1200, transaction_type |-> "NTRF",
      reference |-> Some("REF2"), details |-> "Reversal"]}

\* The statements of the pool: two account ids, three pairs of an opening
\* and a closing balance, the sequences of at most MaxMt940Tx transactions;
\* and the statement parsed from the sample.
Mt940Statements ==
    {[reference |-> "0000000000", account_id |-> account_id, statement_number |-> "1/1",
      opening_balance |-> [credit_debit |-> pair[1], date |-> Date(2020, 1, 1),
                           currency |-> "EUR", amount |-> pair[2]],
      closing_balance |-> [credit_debit |-> pair[3], date |-> Date(2020, 1, 31),
                           currency |-> "EUR", amount |-> pair[4]],
      transactions |-> txs] :
         account_id \in {"NL81ASNB9999999999", "12345"},
         pair \in {<<"C", 44429, "C", 37929>>, <<"D", 1000, "C", 500>>,
                   <<"C", 0, "D", 250>>},
         txs \in UNION {[1..k -> Mt940TxPool] : k \in 0..MaxMt940Tx}}
        \cup {Mt940_parse(SAMPLE_MT940).val[1]}

InitFromMt940 ==
    /\ fn_in \in Mt940Statements
    /\ fn_op = "input"
    /\ fn_out = None
    /\ CmpIdle
    /\ CvIdle

\* Camt053Statement::from(mt940)
ConvertToCamt053 ==
    /\ fn_op = "input"
    /\ fn_op' = "Mt940_to_Camt053"
    /\ fn_out' = Mt940_to_Camt053(fn_in)
    /\ UNCHANGED fn_in
    /\ UNCHANGED cmpVars
    /\ UNCHANGED cvVars

\* Statement::from(mt940)
ConvertToStatement ==
    /\ fn_op = "input"
    /\ fn_op' = "Mt940_to_Statement"
    /\ fn_out' = Mt940_to_Statement(fn_in)
    /\ UNCHANGED fn_in
    /\ UNCHANGED cmpVars
    /\ UNCHANGED cvVars

NextFromMt940 == ConvertToCamt053 \/ ConvertToStatement

SpecFromMt940 == InitFromMt940 /\ [][NextFromMt940]_vars

\* C7: the CAMT.053 statement converted from an MT940 statement has exactly
\* two balances, first OPBD with the opening amount, then CLBD with the
\* closing amount, and one entry per transaction, in the order of the
\* transactions.
C7_TwoBalancesOneEntryPerTx ==
    fn_op = "Mt940_to_Camt053" =>
        /\ Len(fn_out.balances) = 2
        /\ fn_out.balances[1].balance_type = "OPBD"
        /\ fn_out.balances[1].amount = fn_in.opening_balance.amount
        /\ fn_out.balances[2].balance_type = "CLBD"
        /\ fn_out.balances[2].amount = fn_in.closing_balance.amount
        /\ Len(fn_out.entries) = Len(fn_in.transactions)
        /\ \A k \in 1..Len(fn_in.transactions) :
               /\ fn_out.entries[k].amount = fn_in.transactions[k].amount
               /\ fn_out.entries[k].booking_date = fn_in.transactions[k].date

C7_Witness ==
    /\ fn_op = "Mt940_to_Camt053"
    /\ Len(fn_in.transactions) = 2
    /\ fn_in.transactions[1].amount = 6500
    /\ fn_in.transactions[2].amount = 125000
    /\ fn_in.opening_balance.amount = 44429
    /\ fn_out.balances[2].amount = 37929
    /\ fn_out.entries[2].amount = 125000

\* C8: every entry converted from an MT940 transaction has exactly one
\* transaction-detail block; for direction 'C' the block carries the
\* counterparty as debtor and no creditor, for direction 'D' as creditor and
\* no debtor; the entry's indicator is CRDT exactly when the direction is 'C'.
C8_CounterpartySide ==
    fn_op = "Mt940_to_Camt053" =>
        \A k \in 1..Len(fn_in.transactions) :
            LET tx == fn_in.transactions[k]
                entry == fn_out.entries[k]
                d == entry.transaction_details[1]
            IN  /\ Len(entry.transaction_details) = 1
                /\ (entry.credit_debit_indicator = "CRDT") <=> (tx.credit_debit = "C")
                /\ tx.credit_debit = "C" =>
                       /\ d.debtor_name = <<tx.details>>
                       /\ d.debtor_account = tx.reference
                       /\ d.creditor_name = <<>>
                       /\ d.creditor_account = <<>>
                /\ tx.credit_debit = "D" =>
                       /\ d.creditor_name = <<tx.details>>
                       /\ d.creditor_account = tx.reference
                       /\ d.debtor_name = <<>>
                       /\ d.debtor_account = <<>>

C8_Witness ==
    /\ fn_op = "Mt940_to_Camt053"
    /\ Len(fn_in.transactions) = 2
    /\ fn_in.transactions[1].credit_debit = "C"
    /\ fn_in.transactions[2].credit_debit = "D"
    /\ fn_out.entries[1].transaction_details[1].debtor_account = <<"REF1">>
    /\ fn_out.entries[1].transaction_details[1].creditor_name = <<>>
    /\ fn_out.entries[2].transaction_details[1].debtor_name = <<>>
    /\ fn_out.entries[2].credit_debit_indicator = "DBIT"

\* C10: the Statement converted from an MT940 statement has the account id
\* as account.number, as many transactions in the same order, is_credit true
\* exactly for direction 'C', and for a balance of direction 'C' the amount
\* of the balance as Amount value.
C10_StatementFromMt940 ==
    fn_op = "Mt940_to_Statement" =>
        /\ fn_out.account.number = fn_in.account_id
        /\ Len(fn_out.transactions) = Len(fn_in.transactions)
        /\ \A k \in 1..Len(fn_in.transactions) :
               /\ fn_out.transactions[k].is_credit <=> (fn_in.transactions[k].credit_debit = "C")
               /\ fn_out.transactions[k].amount.value = fn_in.transactions[k].amount
               /\ fn_out.transactions[k].date = fn_in.transactions[k].date
        /\ fn_in.opening_balance.credit_debit = "C" =>
               fn_out.opening_balance.amount.value = fn_in.opening_balance.amount
        /\ fn_in.closing_balance.credit_debit = "C" =>
               fn_out.closing_balance.amount.value = fn_in.closing_balance.amount

\* The case of the integration test: the statement parsed from the sample.
C10_Witness ==
    /\ fn_op = "Mt940_to_Statement"
    /\ fn_in.reference = "0000000000"
    /\ Len(fn_in.transactions) = 1
    /\ fn_in.transactions[1].transaction_type = "NOVB"
    /\ fn_in.transactions[1].details = "NL47INGB9999999999 hr gjlm paulissen Betaling sieraden"
    /\ fn_out.account.number = "NL81ASNB9999999999"
    /\ fn_out.opening_balance.amount.value = 44429
    /\ fn_out.closing_balance.amount.value = 37929
    /\ Len(fn_out.transactions) = 1
    /\ fn_out.transactions[1].amount.value = 6500
    /\ ~fn_out.transactions[1].is_credit

(***************************************************************************)
(* Round trips: a statement is written by the writer of its format and the *)
(* bytes are parsed back.                                                  *)
(***************************************************************************)

\* The statements of CAMT.053: those the conversion builds from the MT940
\* statements, and the statement parsed from the sample.
Camt053Statements ==
    {Mt940_to_Camt053(mt940) : mt940 \in Mt940Statements}
        \cup {Camt053_parse(SAMPLE_CAMT053).val}

InitRoundTrip ==
    /\ fn_in \in {[format |-> "Mt940", statement |-> st] : st \in Mt940Statements}
                 \cup {[format |-> "Camt053", statement |-> st] : st \in Camt053Statements}
    /\ fn_op = "input"
    /\ fn_out = None
    /\ CmpIdle
    /\ CvIdle

\* Mt940Statement::parse of the bytes of Mt940Writer::write_to
RoundTripMt940 ==
    /\ fn_op = "input"
    /\ fn_in.format = "Mt940"
    /\ fn_op' = "Mt940_round_trip"
    /\ fn_out' = Mt940_parse(Mt940_write_to(fn_in.statement))
    /\ UNCHANGED fn_in
    /\ UNCHANGED cmpVars
    /\ UNCHANGED cvVars

\* Camt053Statement::parse of the bytes of Camt053Writer::write_to
RoundTripCamt053 ==
    /\ fn_op = "input"
    /\ fn_in.format = "Camt053"
    /\ fn_op' = "Camt053_round_trip"
    /\ fn_out' = Camt053_parse(Camt053_write_to(fn_in.statement))
    /\ UNCHANGED fn_in
    /\ UNCHANGED cmpVars
    /\ UNCHANGED cvVars

NextRoundTrip == RoundTripMt940 \/ RoundTripCamt053

SpecRoundTrip == InitRoundTrip /\ [][NextRoundTrip]_vars

\* C9: parsing the bytes a writer wrote for a statement gives a statement
\* with the same account id, the same opening and closing balances
\* (direction, date, currency, amount) and as many transactions, for MT940
\* and for CAMT.053.
C9_RoundTrip ==
    /\ fn_op = "Mt940_round_trip" =>
           /\ fn_out.ok
           /\ Len(fn_out.val) = 1
           /\ fn_out.val[1].account_id = fn_in.statement.account_id
           /\ fn_out.val[1].opening_balance = fn_in.statement.opening_balance
           /\ fn_out.val[1].closing_balance = fn_in.statement.closing_balance
           /\ Len(fn_out.val[1].transactions) = Len(fn_in.statement.transactions)
    /\ fn_op = "Camt053_round_trip" =>
           /\ fn_out.ok
           /\ fn_out.val.account.iban = fn_in.statement.account.iban
           /\ fn_out.val.balances = fn_in.statement.balances
           /\ Len(fn_out.val.entries) = Len(fn_in.statement.entries)

(***************************************************************************)
(* The parsers applied to documents and amount texts.                      *)
(***************************************************************************)
\* The most records of an MT940 document, and the most :61: lines of a record.
MaxRecords == 2
MaxTxLines == 2
\* The most <Bal> and <Ntry> blocks of a CAMT.053 document.
MaxBlocks == 2

\* :61: lines with the lines that follow them up to the next :61: (tail) and
\* the details these lines give the transaction by the layout of the format:
\* the value of the :86: line and its continuation lines ("" without a :86:
\* line).  A line is well formed when it has the layout of a transaction
\* header: a value date of six digits, an optional entry date of four, the
\* direction, the amount, the type code of four characters.
Mt940LinePool ==
    { [line |-> "2001010101D65,00NTRFNONREF", tail |-> ":86:alpha\n", details |-> "alpha",
       well_formed |-> TRUE, credit_debit |-> "D", amount |-> 6500],
      [line |-> "200102C12,50NTRF", tail |-> "", details |-> "",
       well_formed |-> TRUE, credit_debit |-> "C", amount |-> 1250],
      [line |-> "200105D9,99NTRF", tail |-> ":86:gamma\n", details |-> "gamma",
       well_formed |-> TRUE, credit_debit |-> "D", amount |-> 999],
      [line |-> "20AB05D9,99NTRFXXXX", tail |-> ":86:delta\n", details |-> "delta",
       well_formed |-> FALSE, credit_debit |-> "D", amount |-> 999],
      [line |-> "200106CNTRF//REFERENCE", tail |-> ":86:epsilon\n", details |-> "epsilon",
       well_formed |-> FALSE, credit_debit |-> "C", amount |-> 0],
      [line |-> "2001070107C3,00NTRFNONREF",
       tail |-> ":86: beta one \n  two\n\nthree  \n", details |-> "beta one two three",
       well_formed |-> TRUE, credit_debit |-> "C", amount |-> 300],
      [line |-> "2001080108D4,00NTRFNONREF",
       tail |-> "before\n:86:zeta\n:NS:note\nafter the tag\n", details |-> "zeta",
       well_formed |-> TRUE, credit_debit |-> "D", amount |-> 400] }

\* The documents Mt940Statement::parse is applied to.  A record lacks
\* nothing, or one of the four mandatory tags, or a date that parses in its
\* opening balance; the documents are records of every kind without
\* transactions, and one complete record with transaction lines, with or
\* without a :86: line before the first of them (stray).
Mt940Documents ==
    { [format |-> "mt940",
       records |-> [k \in 1..Len(kinds) |->
                       [kind |-> kinds[k], stray |-> "", lines |-> <<>>]]] :
          kinds \in UNION { [1..n -> {"complete", "no_reference", "no_account",
                                      "no_opening", "no_closing", "bad_opening"}] :
                            n \in 0..MaxRecords } }
    \cup { [format |-> "mt940",
            records |-> << [kind |-> "complete", stray |-> stray, lines |-> lines] >>] :
               stray \in {"", ":86:stray\n"},
               lines \in UNION { [1..n -> Mt940LinePool] : n \in 1..MaxTxLines } }

\* The text of the k-th record of a document: the reference names k.
Mt940RecordText(k, record) ==
    "{1:F01BANKNL2AXXXX0000000000}{2:O940BANKNL2AXXXXN}{3:}{4:\n"
    \o (IF record.kind = "no_reference" THEN "" ELSE ":20:REF" \o ToString(k) \o "\n")
    \o (IF record.kind = "no_account" THEN "" ELSE ":25:NL81ASNB9999999999\n")
    \o ":28C:" \o ToString(k) \o "/1\n"
    \o (IF record.kind = "no_opening" THEN ""
        ELSE IF record.kind = "bad_opening" THEN ":60F:C20X101EUR10,00\n"
        ELSE ":60F:C200101EUR10,00\n")
    \o record.stray
    \o Join([j \in 1..Len(record.lines) |->
                 ":61:" \o record.lines[j].line \o "\n" \o record.lines[j].tail], "")
    \o (IF record.kind = "no_closing" THEN "" ELSE ":62F:C200131EUR10,00\n")
    \o "-}{5:}\n"

\* The documents Camt053Statement::parse is applied to.  The header has or
\* lacks the root marker, the message id, the creation time, the statement's
\* own id and an account block with its id, and the statement container has
\* both tags, lacks one or both, or has them in the wrong order.  A block is
\* whole, or lacks its amount, or has a malformed amount, date or currency
\* attribute, or lacks its closing tag.  The documents are every header
\* without blocks and the whole header with every sequence of blocks.
Camt053Documents ==
    { [format |-> "camt053", root |-> r, msg_id |-> m, cre_dt_tm |-> c, stmt |-> s,
       stmt_id |-> i, acct |-> a, blocks |-> <<>>] :
          r \in BOOLEAN, m \in BOOLEAN, c \in BOOLEAN,
          s \in {"both", "no_open", "no_close", "none", "close_first"},
          i \in BOOLEAN, a \in BOOLEAN }
    \cup { [format |-> "camt053", root |-> TRUE, msg_id |-> TRUE, cre_dt_tm |-> TRUE,
            stmt |-> "both", stmt_id |-> TRUE, acct |-> TRUE, blocks |-> blocks] :
               blocks \in UNION { [1..n -> ({"Bal"} \X {"none", "no_amount", "bad_amount",
                                                       "bad_date", "bad_currency",
                                                       "unclosed"})
                                           \cup ({"Ntry"} \X {"none", "bad_amount",
                                                              "unclosed"})] :
                                  n \in 1..MaxBlocks } }

\* The text of the k-th block of a document: <<tag, defect>>.  The amount
\* names k.
Camt053BlockText(k, block) ==
    "<" \o block[1] \o ">"
    \o (IF block[1] = "Bal" THEN "<Tp><CdOrPrtry><Cd>OPBD</Cd></CdOrPrtry></Tp>"
        ELSE "<NtryRef>" \o ToString(k) \o "</NtryRef>")
    \o (IF block[2] = "no_amount" THEN ""
        ELSE IF block[2] = "bad_amount" THEN "<Amt Ccy=\"EUR\">" \o ToString(k) \o "x.00</Amt>"
        ELSE IF block[2] = "bad_currency" THEN "<Amt Ccy=\"EU>" \o ToString(k) \o ".00</Amt>"
        ELSE "<Amt Ccy=\"EUR\">" \o ToString(k) \o ".00</Amt>")
    \o "<CdtDbtInd>CRDT</CdtDbtInd>"
    \o (IF block[1] = "Bal"
        THEN (IF block[2] = "bad_date" THEN "<Dt><Dt>2024-01</Dt></Dt>"
              ELSE "<Dt><Dt>2024-01-01</Dt></Dt>")
        ELSE "<BookgDt><Dt>2024-01-02</Dt></BookgDt>")
    \o (IF block[2] = "unclosed" THEN "" ELSE "</" \o block[1] \o ">")

\* The text of a document.
Camt053DocumentText(doc) ==
    "<Document>" \o (IF doc.root THEN "<BkToCstmrStmt>" ELSE "") \o "<GrpHdr>"
    \o (IF doc.msg_id THEN "<MsgId>M1</MsgId>" ELSE "")
    \o (IF doc.cre_dt_tm THEN "<CreDtTm>2024-01-01T00:00:00</CreDtTm>" ELSE "")
    \o "</GrpHdr>"
    \o (IF doc.stmt \in {"both", "no_close"} THEN "<Stmt>"
        ELSE IF doc.stmt = "close_first" THEN "</Stmt>" ELSE "")
    \o (IF doc.stmt_id THEN "<Id>S1</Id>" ELSE "")
    \o (IF doc.acct THEN "<Acct><Id><IBAN>DK8030000001234567</IBAN></Id></Acct>" ELSE "")
    \o Join([k \in 1..Len(doc.blocks) |-> Camt053BlockText(k, doc.blocks[k])], "")
    \o (IF doc.stmt \in {"both", "no_open"} THEN "</Stmt>"
        ELSE IF doc.stmt = "close_first" THEN "<Stmt>" ELSE "")
    \o (IF doc.root THEN "</BkToCstmrStmt>" ELSE "") \o "</Document>"

\* The texts the amount parsers are applied to: a sign, a whole part, a
\* separator and a fractional part, which may hold a character that is not
\* a digit; and texts of no such shape.
AmountTexts ==
    { [format |-> "amount", decimal |-> TRUE, sign |-> sign, whole |-> whole,
       sep |-> tail[1], frac |-> tail[2], text |-> sign \o whole \o tail[1] \o tail[2]] :
          sign \in {"", "-", "+"},
          whole \in {"", "0", "123", "9999999", "10000000"},
          tail \in { <<"", "">>, <<".", "">>, <<".", "4">>, <<".", "45">>, <<",", "45">>,
                     <<".", "459">>, <<",", "451">>, <<".", "45x">>, <<".", "4x">>,
                     <<".", "+5">> } }
    \cup { [format |-> "amount", decimal |-> FALSE, sign |-> "", whole |-> "",
            sep |-> "", frac |-> "", text |-> text] :
               text \in {"abc", "12a", "1.2.3", "1.23.4", "--5", "1 000,00"} }

InitParse ==
    /\ fn_in \in Mt940Documents \cup Camt053Documents \cup AmountTexts
                 \cup { [format |-> "date", text |-> text] :
                            text \in {"000101", "200101", "491231", "500101", "501231",
                                      "510101", "520615", "991231", "2001", "20X101"} }
    /\ fn_op = "input"
    /\ fn_out = None
    /\ CmpIdle
    /\ CvIdle

\* Mt940Statement::parse(content)
ParseMt940 ==
    /\ fn_op = "input"
    /\ fn_in.format = "mt940"
    /\ fn_op' = "Mt940_parse"
    /\ fn_out' = Mt940_parse(Join([k \in 1..Len(fn_in.records) |->
                                        Mt940RecordText(k, fn_in.records[k])], ""))
    /\ UNCHANGED fn_in
    /\ UNCHANGED cmpVars
    /\ UNCHANGED cvVars

\* Camt053Statement::parse(content)
ParseCamt053 ==
    /\ fn_op = "input"
    /\ fn_in.format = "camt053"
    /\ fn_op' = "Camt053_parse"
    /\ fn_out' = Camt053_parse(Camt053DocumentText(fn_in))
    /\ UNCHANGED fn_in
    /\ UNCHANGED cmpVars
    /\ UNCHANGED cvVars

\* Camt053Statement::parse_decimal_amount(s)
ParseDecimalAmount ==
    /\ fn_op = "input"
    /\ fn_in.format = "amount"
    /\ fn_op' = "parse_decimal_amount"
    /\ fn_out' = parse_decimal_amount(fn_in.text)
    /\ UNCHANGED fn_in
    /\ UNCHANGED cmpVars
    /\ UNCHANGED cvVars

\* Mt940Statement::parse_balance_value(value), the amount behind the
\* direction, the date and the currency.
ParseMt940Balance ==
    /\ fn_op = "input"
    /\ fn_in.format = "amount"
    /\ fn_op' = "Mt940_parse_balance_value"
    /\ fn_out' = Mt940_parse_balance_value("C200101EUR" \o fn_in.text)
    /\ UNCHANGED fn_in
    /\ UNCHANGED cmpVars
    /\ UNCHANGED cvVars

\* CsvStatement::parse_amount_field(s)
ParseCsvAmountField ==
    /\ fn_op = "input"
    /\ fn_in.format = "amount"
    /\ fn_op' = "parse_amount_field"
    /\ fn_out' = parse_amount_field(fn_in.text)
    /\ UNCHANGED fn_in
    /\ UNCHANGED cmpVars
    /\ UNCHANGED cvVars

\* Mt940Statement::parse_date(date_str)
ParseMt940Date ==
    /\ fn_op = "input"
    /\ fn_in.format = "date"
    /\ fn_op' = "Mt940_parse_date"
    /\ fn_out' = Mt940_parse_date(fn_in.text)
    /\ UNCHANGED fn_in
    /\ UNCHANGED cmpVars
    /\ UNCHANGED cvVars

NextParse ==
    \/ ParseMt940Date
    \/ ParseMt940
    \/ ParseCamt053
    \/ ParseDecimalAmount
    \/ ParseMt940Balance
    \/ ParseCsvAmountField

SpecParse == InitParse /\ [][NextParse]_vars

\* The positions of the records of the parsed document that have one of kinds.
RecordsOfKind(kinds) ==
    SelectSeq([k \in 1..Len(fn_in.records) |-> k],
              LAMBDA k : fn_in.records[k].kind \in kinds)

\* The result of Mt940Statement::parse is the records at positions, in order,
\* or InvalidFormat when there is none.
ReturnsRecords(positions) ==
    IF positions = <<>> THEN fn_out = [ok |-> FALSE, err |-> "InvalidFormat"]
    ELSE /\ fn_out.ok
         /\ [k \in 1..Len(fn_out.val) |-> fn_out.val[k].reference]
                = [k \in 1..Len(positions) |-> "REF" \o ToString(positions[k])]

\* C11 as stated: Mt940Statement::parse returns, in document order, exactly
\* the records that contain all four mandatory tags (reference, account id,
\* opening balance, closing balance), and InvalidFormat exactly when no
\* record parsed.
C11_AllTagsReturned ==
    fn_op = "Mt940_parse" => ReturnsRecords(RecordsOfKind({"complete", "bad_opening"}))

\* C11 as amended: Mt940Statement::parse returns, in document order, exactly
\* the records that contain all four mandatory tags with balance values that
\* parse; a record missing a tag or with a malformed balance is skipped
\* without disturbing the others, and the result is InvalidFormat exactly
\* when no record parsed.
C11_ParsedRecordsReturned ==
    fn_op = "Mt940_parse" => ReturnsRecords(RecordsOfKind({"complete"}))

\* A document of two records, the first skipped and the second returned.
C11_Witness ==
    /\ fn_op = "Mt940_parse"
    /\ Len(fn_in.records) = 2
    /\ fn_in.records[1].kind = "no_account"
    /\ fn_in.records[2].kind = "complete"
    /\ fn_out.ok
    /\ Len(fn_out.val) = 1
    /\ fn_out.val[1].reference = "REF2"

\* C12: a :61: line that cannot be parsed is dropped and the record still
\* parses; its transactions are exactly the well-formed lines in their
\* order, each with its own details.
C12_WellFormedLinesKept ==
    (/\ fn_op = "Mt940_parse"
     /\ Len(fn_in.records) = 1
     /\ fn_in.records[1].kind = "complete"
     /\ fn_in.records[1].stray = "") =>
        /\ fn_out.ok
        /\ Len(fn_out.val) = 1
        /\ [k \in 1..Len(fn_out.val[1].transactions) |->
               [credit_debit |-> fn_out.val[1].transactions[k].credit_debit,
                amount |-> fn_out.val[1].transactions[k].amount,
                details |-> fn_out.val[1].transactions[k].details]]
             = [k \in 1..Len(SelectSeq(fn_in.records[1].lines, LAMBDA l : l.well_formed)) |->
                   [credit_debit |-> SelectSeq(fn_in.records[1].lines,
                                               LAMBDA l : l.well_formed)[k].credit_debit,
                    amount |-> SelectSeq(fn_in.records[1].lines,
                                         LAMBDA l : l.well_formed)[k].amount,
                    details |-> SelectSeq(fn_in.records[1].lines,
                                          LAMBDA l : l.well_formed)[k].details]]

\* C13 as stated: Camt053Statement::parse returns InvalidFormat whenever the
\* root marker <BkToCstmrStmt> or the statement container <Stmt> or its
\* closing tag is missing, whatever else the document contains.
C13_StructureMissing ==
    (fn_op = "Camt053_parse"
        /\ (~fn_in.root \/ fn_in.stmt \in {"no_open", "no_close", "none"})) =>
        fn_out = [ok |-> FALSE, err |-> "InvalidFormat"]

\* C13 as amended: Camt053Statement::parse returns InvalidFormat whenever the
\* root marker is missing, whatever else the document contains, and whenever
\* <Stmt> or its closing tag is missing from a document that has the root
\* marker, a message id and a creation time.
C13_StructureMissingAfterHeader ==
    (fn_op = "Camt053_parse"
        /\ (~fn_in.root
            \/ (fn_in.msg_id /\ fn_in.cre_dt_tm
                /\ fn_in.stmt \in {"no_open", "no_close", "none"}))) =>
        fn_out = [ok |-> FALSE, err |-> "InvalidFormat"]

\* A document with its header whole and the closing tag of <Stmt> missing.
C13_Witness ==
    /\ fn_op = "Camt053_parse"
    /\ fn_in.root /\ fn_in.msg_id /\ fn_in.cre_dt_tm /\ fn_in.stmt_id
    /\ fn_in.stmt = "no_close"
    /\ fn_out = [ok |-> FALSE, err |-> "InvalidFormat"]

\* C14: Camt053Statement::parse returns MissingField whenever the message
\* id, the creation time or the statement's own id is absent from an
\* otherwise well-formed document; the id of the account block is never
\* taken as the statement id.
C14_MandatoryFields ==
    (fn_op = "Camt053_parse" /\ fn_in.root /\ fn_in.stmt = "both") =>
        /\ (~fn_in.msg_id \/ ~fn_in.cre_dt_tm \/ ~fn_in.stmt_id) =>
               fn_out = [ok |-> FALSE, err |-> "MissingField"]
        /\ (fn_out.ok => fn_out.val.statement_id = "S1")

\* The amounts of the parsed items.
AmountsOf(items) == [k \in 1..Len(items) |-> items[k].amount]

\* The amounts of the whole blocks of the parsed document with the tag.
WholeAmounts(tag) ==
    [k \in 1..Len(SelectSeq([j \in 1..Len(fn_in.blocks) |-> j],
                            LAMBDA j : fn_in.blocks[j] = <<tag, "none">>)) |->
        100 * SelectSeq([j \in 1..Len(fn_in.blocks) |-> j],
                        LAMBDA j : fn_in.blocks[j] = <<tag, "none">>)[k]]

\* C15: a balance or entry block that fails to parse (a missing or malformed
\* amount or date) is omitted and the scan goes on behind its end: the
\* result holds exactly the other blocks, in order and once each.
C15_FailedBlocksOmitted ==
    (fn_op = "Camt053_parse"
        /\ \A j \in 1..Len(fn_in.blocks) : fn_in.blocks[j][2] # "unclosed") =>
        (Len(fn_in.blocks) > 0 =>
            /\ fn_out.ok
            /\ AmountsOf(fn_out.val.balances) = WholeAmounts("Bal")
            /\ AmountsOf(fn_out.val.entries) = WholeAmounts("Ntry"))

\* C16: every document-level parse returns a value or a typed error (Parse,
\* InvalidFormat, MissingField); no input leads to an out-of-range slice.
C16_NoPanic ==
    fn_op \in {"Mt940_parse", "Camt053_parse"} =>
        (fn_out.ok \/ fn_out.err \in {"Parse", "InvalidFormat", "MissingField"})

\* The minor units the digits of the parsed text stand for, the fraction cut
\* behind its second digit.
ExactCents ==
    DigitsValue(fn_in.whole) * 100
        + (IF Len(fn_in.frac) = 0 THEN 0
           ELSE IF Len(fn_in.frac) = 1 THEN DigitsValue(fn_in.frac) * 10
           ELSE DigitsValue(SubSeq(fn_in.frac, 1, 2)))

\* The amount a codec read, or that it read none.
AmountRead ==
    IF fn_op = "parse_amount_field"
    THEN (IF fn_out = <<>> THEN [ok |-> FALSE] ELSE [ok |-> TRUE, val |-> fn_out[1]])
    ELSE IF fn_op = "Mt940_parse_balance_value"
    THEN (IF fn_out.ok THEN [ok |-> TRUE, val |-> fn_out.val.amount] ELSE [ok |-> FALSE])
    ELSE (IF fn_out.ok THEN [ok |-> TRUE, val |-> fn_out.val] ELSE [ok |-> FALSE])

\* C17: every amount a codec reads goes through the overflow-checked decimal
\* parser: the same text gives the same value in every codec, the third
\* fractional digit is cut and an overflow is an error.
C17_OneDecimalParser ==
    (fn_op \in {"parse_decimal_amount", "Mt940_parse_balance_value", "parse_amount_field"}
        /\ fn_in.decimal /\ fn_in.sign = "" /\ fn_in.whole # "" /\ IsDigits(fn_in.frac)) =>
        IF ExactCents > I64_MAX THEN ~AmountRead.ok
        ELSE AmountRead = [ok |-> TRUE, val |-> ExactCents]

\* C18: for a text of an optional sign, a whole part W and a fractional part
\* F behind '.' or ',', parse_decimal_amount returns W * 100 plus the first
\* two digits of F, F padded with zeros on the right, negated behind '-';
\* later digits of F do not change the result.
C18_TwoDigitsTruncated ==
    (fn_op = "parse_decimal_amount" /\ fn_in.decimal /\ fn_in.whole # ""
        /\ IsDigits(fn_in.frac) /\ ExactCents <= I64_MAX) =>
        fn_out = [ok |-> TRUE,
                  val |-> IF fn_in.sign = "-" THEN -ExactCents ELSE ExactCents]

\* A negative text with a third fractional digit above five.
C18_Witness ==
    /\ fn_op = "parse_decimal_amount"
    /\ fn_in.text = "-123.459"
    /\ fn_out = [ok |-> TRUE, val |-> -12345]

\* C19: parse_decimal_amount returns a Parse error for the empty text and
\* for every text with a character other than digits, one leading sign and
\* one separator, wherever the character stands.
C19_OtherCharactersRejected ==
    (fn_op = "parse_decimal_amount"
        /\ (fn_in.text = "" \/ ~fn_in.decimal \/ ~IsDigits(fn_in.frac))) =>
        fn_out = [ok |-> FALSE, err |-> "Parse"]

C21_PivotAsStated ==
    (fn_op = "Mt940_parse_date" /\ Len(fn_in.text) = 6) =>
        /\ SubSeq(fn_in.text, 1, 2) = "50" => (fn_out.ok /\ fn_out.val.year = 1950)
        /\ SubSeq(fn_in.text, 1, 2) = "51" => (fn_out.ok /\ fn_out.val.year = 2051)

\* C21 as amended: parse_date maps the two-digit year 50 to 2050 and the
\* two-digit year 51 to 1951, with the boundary exactly between 50 and 51:
\* the years up to 50 are of the 2000s, the years from 51 on of the 1900s.
C21_PivotAbove50 ==
    (fn_op = "Mt940_parse_date" /\ Len(fn_in.text) = 6 /\ IsDigits(fn_in.text)) =>
        /\ fn_out.ok
        /\ fn_out.val.year =
               (IF DigitsValue(SubSeq(fn_in.text, 1, 2)) <= 50 THEN 2000 ELSE 1900)
                   + DigitsValue(SubSeq(fn_in.text, 1, 2))
        /\ SubSeq(fn_in.text, 1, 2) = "50" => fn_out.val.year = 2050
        /\ SubSeq(fn_in.text, 1, 2) = "51" => fn_out.val.year = 1951

\* The last day of the year 50.
C21_Witness ==
    /\ fn_op = "Mt940_parse_date"
    /\ fn_in.text = "501231"
    /\ fn_out = [ok |-> TRUE, val |-> [year |-> 2050, month |-> 12, day |-> 31]]

(***************************************************************************)
(* parse_statements applied to documents of the three formats, and the     *)
(* steps of the CSV codec.                                                 *)
(***************************************************************************)
\* The most lines after the header of a CSV document.
MaxCsvLines == 2

\* The twelve lines before the rows of a CSV document.
CSV_HEADER ==
    "Vypiska po licevomu schetu\n"
    \o ",\"OOO Romashka\",,\n"
    \o ",Schet,40702810000000000001,\n"
    \o ",Valyuta,RUB,\n"
    \o "\n\n\n\n"
    \o ",Data provodki,,,Schet debet,,,,Schet kredit,Summa po debetu,,,,"
    \o "Summa po kreditu,No dokumenta,,,Bank,,,Naznachenie platezha\n"
    \o "\n\n\n"

\* The physical lines the rows of the CSV documents are made of, with what
\* each is by construction: row, whether its second comma field has the shape
\* of a date; quotes, the number of its quote characters; complete, whether
\* it is by itself a record of a transaction, which then adds signed to the
\* running total.
CsvLinePool ==
    <<[line |-> ",15.01.2024,,,ACC1,,,,ACC2,,,,,100.00,DOC1,,,BANK BIK 044525225,,,alpha",
       row |-> TRUE, quotes |-> 0, complete |-> TRUE, signed |-> 10000],
      [line |-> ",16.01.2024,,,ACC1,,,,ACC2,\"30,50\",,,,,DOC2,,,BANK,,,beta",
       row |-> TRUE, quotes |-> 2, complete |-> TRUE, signed |-> -3050],
      [line |-> ",17.01.2024,,,ACC1,,,,ACC2,,,,,7.00,DOC3,,,BANK,,,\"two",
       row |-> TRUE, quotes |-> 1, complete |-> FALSE, signed |-> 0],
      [line |-> "lines\"",
       row |-> FALSE, quotes |-> 1, complete |-> FALSE, signed |-> 0],
      [line |-> "Itogo oborotov,2",
       row |-> FALSE, quotes |-> 0, complete |-> FALSE, signed |-> 0],
      [line |-> ",18.01.2024,short",
       row |-> TRUE, quotes |-> 0, complete |-> FALSE, signed |-> 0],
      [line |-> ",19.01.2024,,,ACC1,,,,ACC2,,,,,99999999999.00,DOC4,,,BANK,,,big",
       row |-> TRUE, quotes |-> 0, complete |-> TRUE, signed |-> I64_MAX]>>

\* The contents parse_statements is called with: the samples, the samples
\* with a minus sign before the amount of the transaction, a text that is no
\* document, and the CSV documents of the header and at most MaxCsvLines
\* lines of the pool.
StatementContents ==
    { [format |-> "statements", source |-> "Mt940", content |-> content, rows |-> <<>>] :
          content \in {SAMPLE_MT940, Replace(SAMPLE_MT940, "D65,00", "D-65,00"),
                       SAMPLE_MT940 \o SAMPLE_MT940, "no statement"} }
    \cup { [format |-> "statements", source |-> "Camt053", content |-> content,
            rows |-> <<>>] :
               content \in {SAMPLE_CAMT053, Replace(SAMPLE_CAMT053, ">591.15<", ">-591.15<"),
                            "no statement"} }
    \cup { [format |-> "statements", source |-> "Csv",
            content |-> CSV_HEADER \o Join([k \in 1..Len(rows) |->
                                               CsvLinePool[rows[k]].line \o "\n"], ""),
            rows |-> rows] :
               rows \in UNION { [1..n -> 1..Len(CsvLinePool)] : n \in 0..MaxCsvLines } }
    \cup { [format |-> "statements", source |-> "Csv", content |-> "short\n",
            rows |-> <<>>] }

\* The most fields of a record given to parse_csv_fields.
MaxFields == 3

\* The texts of the fields of the records parse_csv_fields is applied to,
\* with the value each has by the quoting rules: plain, padded with blanks,
\* empty, quoted with a comma inside, quoted with doubled quotes inside,
\* quoted in its middle, and quoted without the closing quote (open).
CsvFieldPool ==
    <<[text |-> "abc", value |-> "abc", open |-> FALSE],
      [text |-> " x y ", value |-> "x y", open |-> FALSE],
      [text |-> "", value |-> "", open |-> FALSE],
      [text |-> "\"a,b\"", value |-> "a,b", open |-> FALSE],
      [text |-> "\"say \"\"hi\"\", ok\"", value |-> "say \"hi\", ok", open |-> FALSE],
      [text |-> "p\"q,r\"s", value |-> "pq,rs", open |-> FALSE],
      [text |-> "\"open", value |-> "open", open |-> TRUE]>>

InitStatements ==
    /\ fn_in \in StatementContents
                 \cup { [format |-> "record", pieces |-> pieces] :
                            pieces \in UNION { [1..n -> 1..Len(CsvFieldPool)] :
                                               n \in 1..MaxFields } }
    /\ fn_op = "input"
    /\ fn_out = None
    /\ CmpIdle
    /\ CvIdle

\* ypbank_parser::parse_statements(reader, format), in a build with or
\* without overflow checks.
ParseStatements ==
    /\ fn_op = "input"
    /\ fn_in.format = "statements"
    /\ fn_op' = "parse_statements"
    /\ \E overflow_checks \in BOOLEAN :
           fn_out' = parse_statements(fn_in.content, fn_in.source, overflow_checks)
    /\ UNCHANGED fn_in
    /\ UNCHANGED cmpVars
    /\ UNCHANGED cvVars

\* One iteration of the loop of CsvStatement::parse_transactions over the
\* lines after the header; before the first, i is 0 and no transaction is
\* kept.
CsvScanStep ==
    LET locals == IF fn_op = "input" THEN [i |-> 0, transactions |-> Ok(<<>>)] ELSE fn_out
        lines == [k \in 1..Len(fn_in.rows) |-> CsvLinePool[fn_in.rows[k]].line]
    IN  /\ fn_in.format = "statements"
        /\ fn_in.source = "Csv"
        /\ fn_op \in {"input", "parse_transactions"}
        /\ locals.i < Len(lines)
        /\ fn_op' = "parse_transactions"
        /\ fn_out' = ParseTransactionsStep(lines, locals.i, locals.transactions)
        /\ UNCHANGED fn_in
        /\ UNCHANGED cmpVars
        /\ UNCHANGED cvVars

\* CsvStatement::parse_csv_fields(record)
ParseCsvFields ==
    /\ fn_op = "input"
    /\ fn_in.format = "record"
    /\ fn_op' = "parse_csv_fields"
    /\ fn_out' = parse_csv_fields(Join([k \in 1..Len(fn_in.pieces) |->
                                            (IF k = 1 THEN "" ELSE ",")
                                                \o CsvFieldPool[fn_in.pieces[k]].text], ""))
    /\ UNCHANGED fn_in
    /\ UNCHANGED cmpVars
    /\ UNCHANGED cvVars

NextStatements ==
    \/ ParseStatements
    \/ CsvScanStep
    \/ ParseCsvFields

SpecStatements == InitStatements /\ [][NextStatements]_vars

\* The condition of the while loop of parse_transactions: a line is left.
\* CsvScanStep is enabled exactly in the states of this condition, and
\* each of its steps changes i.
ScanPending ==
    /\ fn_in.format = "statements"
    /\ fn_in.source = "Csv"
    /\ \/ fn_op = "input" /\ 0 < Len(fn_in.rows)
       \/ fn_op = "parse_transactions" /\ fn_out.i < Len(fn_in.rows)

\* The loop of parse_transactions runs on while its condition holds: a
\* single thread runs it with nothing to wait for. This is the weak
\* fairness WF_vars(CsvScanStep), written with the loop's condition for
\* ENABLED <<CsvScanStep>>_vars.
SpecStatementsLive ==
    SpecStatements /\ ([]<>(~ScanPending) \/ []<><<CsvScanStep>>_vars)

\* C22: in every canonical Statement parse_statements returns, from any of
\* the three formats, every Transaction has an amount of value >= 0.
C22_AmountsNonNegative ==
    (fn_op = "parse_statements" /\ fn_out.ok) =>
        \A s \in 1..Len(fn_out.val) :
            \A k \in 1..Len(fn_out.val[s].transactions) :
                fn_out.val[s].transactions[k].amount.value >= 0

(***************************************************************************)
(* The conversions of a CAMT.053 statement to MT940 and to the canonical   *)
(* Statement, applied to statements with any balances.                     *)
(***************************************************************************)
\* The most balances of a statement.
MaxBalances == 3

\* The statements converted: the statement parsed from the sample with or
\* without its IBAN and with at most MaxBalances balances of the opening,
\* the closing or another type, as a credit or a debit.  The k-th balance has
\* the amount of k hundred and the date of the k-th of January.
Camt053BalanceVariants ==
    LET sample == Camt053_parse(SAMPLE_CAMT053).val
    IN  { [sample EXCEPT
              !.account.iban = iban,
              !.balances = [k \in 1..Len(kinds) |->
                               [balance_type |-> kinds[k][1],
                                amount |-> 100 * k,
                                currency |-> "DKK",
                                credit_debit_indicator |-> kinds[k][2],
                                date |-> Date(2024, 1, k)]]] :
              iban \in {None, Some("DK8030000001234567")},
              kinds \in UNION { [1..n -> {BALANCE_TYPE_OPENING, BALANCE_TYPE_CLOSING, "ITBD"}
                                             \X {CREDIT_INDICATOR, DEBIT_INDICATOR}] :
                                n \in 0..MaxBalances } }

InitFromCamt053 ==
    /\ fn_in \in Camt053BalanceVariants
    /\ fn_op = "input"
    /\ fn_out = [mt940 |-> None, statement |-> None]
    /\ CmpIdle
    /\ CvIdle

\* Mt940Statement::try_from(camt), of a clone of the statement
ConvertCamt053ToMt940 ==
    /\ fn_out.mt940 = None
    /\ fn_op' = "Camt053_try_into_Mt940"
    /\ fn_out' = [fn_out EXCEPT !.mt940 = Some(Camt053_try_into_Mt940(fn_in))]
    /\ UNCHANGED fn_in
    /\ UNCHANGED cmpVars
    /\ UNCHANGED cvVars

\* Statement::from(camt), of a clone of the statement
ConvertCamt053ToStatement ==
    /\ fn_out.statement = None
    /\ fn_op' = "Camt053_to_Statement"
    /\ fn_out' = [fn_out EXCEPT !.statement = Some(Camt053_to_Statement(fn_in))]
    /\ UNCHANGED fn_in
    /\ UNCHANGED cmpVars
    /\ UNCHANGED cvVars

NextFromCamt053 == ConvertCamt053ToMt940 \/ ConvertCamt053ToStatement

SpecFromCamt053 == InitFromCamt053 /\ [][NextFromCamt053]_vars

\* The balance of MT940 with the direction, the date, the currency and the
\* amount of the k-th balance of the converted statement.
KeepsBalance(balance, k) ==
    /\ balance.credit_debit
           = (IF fn_in.balances[k].credit_debit_indicator = "CRDT" THEN "C" ELSE "D")
    /\ balance.date = fn_in.balances[k].date
    /\ balance.currency = fn_in.balances[k].currency
    /\ balance.amount = fn_in.balances[k].amount

\* The positions of the balances of the converted statement with the type.
BalancesOfType(balance_type) ==
    { k \in 1..Len(fn_in.balances) : fn_in.balances[k].balance_type = balance_type }

\* C23: the conversion of a CAMT.053 statement to MT940 returns a
\* MissingField error when the statement has no balance of type OPBD or none
\* of type CLBD; with both it succeeds, the IBAN is the account id, and the
\* opening and the closing balance have the direction, the date, the currency
\* and the amount of a balance of their type.
C23_MissingFieldOrKept ==
    fn_out.mt940 # None =>
        IF BalancesOfType("OPBD") = {} \/ BalancesOfType("CLBD") = {}
        THEN fn_out.mt940[1] = [ok |-> FALSE, err |-> "MissingField"]
        ELSE /\ fn_out.mt940[1].ok
             /\ fn_in.account.iban # None =>
                    fn_out.mt940[1].val.account_id = fn_in.account.iban[1]
             /\ \E k \in BalancesOfType("OPBD") :
                    KeepsBalance(fn_out.mt940[1].val.opening_balance, k)
             /\ \E k \in BalancesOfType("CLBD") :
                    KeepsBalance(fn_out.mt940[1].val.closing_balance, k)

C23_Witness ==
    /\ fn_out.mt940 # None
    /\ fn_out.mt940[1].ok
    /\ fn_in.account.iban # None
    /\ Len(fn_in.balances) = 3
    /\ fn_in.balances[1].balance_type = "CLBD"
    /\ fn_in.balances[3].balance_type = "OPBD"
    /\ fn_in.balances[3].credit_debit_indicator = "DBIT"
    /\ fn_out.mt940[1].val.opening_balance.credit_debit = "D"
    /\ fn_out.mt940[1].val.opening_balance.amount = 300

\* C30: for a CAMT.053 statement with several balances of type OPBD (or
\* CLBD), the conversion to the canonical Statement and the conversion to
\* MT940 take the same balance, here told by its date, as the opening
\* (closing) balance.
C30_SameBlockSelected ==
    (fn_out.mt940 # None /\ fn_out.statement # None /\ fn_out.mt940[1].ok) =>
        /\ fn_out.statement[1].opening_balance.date
               = fn_out.mt940[1].val.opening_balance.date
        /\ fn_out.statement[1].closing_balance.date
               = fn_out.mt940[1].val.closing_balance.date

\* C26: writing a transaction whose booking date and value date lie in the
\* same year with Mt940Writer and parsing the :61: line back gives a
\* transaction with the same booking date (date) and the same value date
\* (value_date), also when the two dates differ.
C26_DatesRoundTrip ==
    (/\ fn_op = "Mt940_round_trip"
     /\ fn_out.ok
     /\ Len(fn_out.val) = 1
     /\ Len(fn_out.val[1].transactions) = Len(fn_in.statement.transactions)) =>
        \A k \in 1..Len(fn_in.statement.transactions) :
            (/\ fn_in.statement.transactions[k].value_date # None
             /\ fn_in.statement.transactions[k].value_date[1].year
                    = fn_in.statement.transactions[k].date.year) =>
                /\ fn_out.val[1].transactions[k].date
                       = fn_in.statement.transactions[k].date
                /\ fn_out.val[1].transactions[k].value_date
                       = fn_in.statement.transactions[k].value_date

\* C25: in an MT940 record the details of each transaction are the trimmed
\* value of the :86: line after the transaction's own :61: line followed by
\* the non-empty untagged lines after it, trimmed and joined with single
\* spaces, up to the next line that starts with a tag; they are empty without
\* a :86: line after the :61: line, and the text of a :86: line before the
\* first :61: line or of another transaction is no part of them.  Stated for
\* the records all of whose transaction lines the parser kept.
C25_OwnDetailsOnly ==
    (/\ fn_op = "Mt940_parse"
     /\ Len(fn_in.records) = 1
     /\ fn_in.records[1].lines # <<>>
     /\ fn_out.ok
     /\ Len(fn_out.val[1].transactions) = Len(fn_in.records[1].lines)) =>
        \A k \in 1..Len(fn_in.records[1].lines) :
            fn_out.val[1].transactions[k].details = fn_in.records[1].lines[k].details

\* The running total of the rows from the k-th on, each of them a complete
\* record: every credit added, every debit subtracted.
RECURSIVE SignedTotal(_, _)
SignedTotal(rows, k) ==
    IF k > Len(rows) THEN 0
    ELSE CsvLinePool[rows[k]].signed + SignedTotal(rows, k + 1)

\* C24: the canonical Statement built from a parsed CSV document has an
\* opening balance of zero and a closing balance equal to the running total
\* over the transactions in document order (each credit added, each debit
\* subtracted), and the closing balance is a credit exactly when the total
\* is >= 0.  Stated for the documents whose lines are complete records.
C24_ClosingIsRunningTotal ==
    (/\ fn_op = "parse_statements"
     /\ fn_in.source = "Csv"
     /\ fn_out.ok
     /\ \A k \in 1..Len(fn_in.rows) : CsvLinePool[fn_in.rows[k]].complete) =>
        /\ fn_out.val[1].opening_balance.amount.value = 0
        /\ fn_out.val[1].closing_balance.amount.value = SignedTotal(fn_in.rows, 1)
        /\ fn_out.val[1].closing_balance.is_credit <=> SignedTotal(fn_in.rows, 1) >= 0

\* The lines from the one after line i up to line j hold an even number of
\* quote characters together with line i (lines counted from 0).
QuotesClosedAt(i, j) ==
    Cardinality({ m \in (i + 1)..(j + 1) : CsvLinePool[fn_in.rows[m]].quotes % 2 = 1 }) % 2 = 0

\* The value of i after an iteration at line i, by the rule of the format: a
\* line that starts no row is passed alone; a row ends with the first line
\* that closes its quotes, or with the last line.
NextRowAt(i) ==
    IF ~CsvLinePool[fn_in.rows[i + 1]].row THEN i + 1
    ELSE IF \E j \in i..(Len(fn_in.rows) - 1) : QuotesClosedAt(i, j)
    THEN 1 + CHOOSE j \in i..(Len(fn_in.rows) - 1) :
                 /\ QuotesClosedAt(i, j)
                 /\ \A m \in i..(j - 1) : ~QuotesClosedAt(i, m)
    ELSE Len(fn_in.rows)

C28_SplitOutsideQuotes ==
    (/\ fn_op = "parse_csv_fields"
     /\ \A k \in 1..(Len(fn_in.pieces) - 1) : ~CsvFieldPool[fn_in.pieces[k]].open) =>
        fn_out = [k \in 1..Len(fn_in.pieces) |-> CsvFieldPool[fn_in.pieces[k]].value]

C28_Witness ==
    /\ fn_op = "parse_csv_fields"
    /\ fn_in.pieces = <<5, 4, 7>>
    /\ fn_out = <<"say \"hi\", ok", "a,b", "open">>

\* C29: after compare_statements has returned no exact match is left
\* unused: no index of only_in_first and index of only_in_second name
\* transactions of the first and of the second statement with equal booking
\* date, equal amount and equal direction.
C29_NoExactMatchLeft ==
    cmp_pc = "done" =>
        \A i \in SeqRange(only_in_first) : \A j \in SeqRange(only_in_second) :
            ~ExactMatch(stmt1[i], stmt2[j])

\* A finished comparison that leaves transactions on both sides, one of the
\* first statement being an exact match of a transaction of the second that
\* an earlier transaction has claimed.
C29_Witness ==
    /\ cmp_pc = "done"
    /\ only_in_second # <<>>
    /\ \E i \in SeqRange(only_in_first) : \E p \in SeqRange(matched) :
          /\ p[1] < i
          /\ ExactMatch(stmt1[i], stmt2[p[2]])

====
